---- MODULE Spec2Model ----
(***************************************************************************)
(* Model of the GitHub connection lifecycle of the pilot app:              *)
(*   src/lib/github.ts            GitHubService                            *)
(*   src/app/(tabs)/explore.tsx   loadIssues, loadIssue, loadRepositories  *)
(*                                                                         *)
(* The github_connections table is a set of rows, the provider is the set  *)
(* of tokens it currently accepts, and every awaited request is a pair of  *)
(* steps: the request is sent, then its response (or a network exception)  *)
(* arrives.                                                                *)
(***************************************************************************)
EXTENDS Integers, FiniteSets, Sequences, TLC

\* ---------------------------------------------------------------- bounds
MaxUsers == 2
MaxTokens == 2
MaxGhUsers == 2
MaxComments == 1
MaxFlows == 2
MaxRepos == 2
MaxNumbers == 2
MaxPage == 3
MaxIssues == 2
MaxChunks == 3
MaxLoads == 5
MaxProjectRows == 2

Users == 1..MaxUsers
Tokens == 1..MaxTokens
GhUsers == 1..MaxGhUsers
Repos == 1..MaxRepos

VARIABLES
    connections,   \* rows of the github_connections table
    lastOp,        \* the last saveConnection/getConnection/removeConnection call
    valid,         \* access tokens the provider currently accepts
    repos,         \* a getRepositoriesWithCache call (with the load of its connection)
    issues,        \* a loadIssues run of the issues list screen
    issue,         \* a loadIssue run of the issue detail screen
    clientId,      \* GITHUB_CLIENT_ID
    clientSecret,  \* GITHUB_CLIENT_SECRET
    xchg,          \* an exchangeCodeForToken call
    apiCall,       \* a call of one of the GET operations of GitHubService
    request,       \* GitHubService.request: 0 is null, n the n-th AuthRequest made
    ready,         \* the AuthRequests whose makeAuthUrlAsync has completed
    flows,         \* the startOAuthFlow calls
    projects,      \* rows of the projects table
    nextId,        \* the next project id the table generates
    creates,       \* the handleCreateProject runs
    issuesPage,    \* a response page of the issues endpoint and what is returned
    filterRun,     \* issues, criteria and the filteredIssues computed from them
    bodyRun,       \* an issue body and what renderMarkdownContent makes of it
    integ,         \* state of the GitHubIntegration component
    connectRun,    \* a connectToGitHub run of the component
    disconnectRun, \* a run of disconnectFromGitHub's Disconnect handler
    pscreen,       \* state of the projects screen
    loads,         \* the loads the projects screen has started
    svcCall        \* the last ProjectService call made under row level security

vars == <<connections, lastOp, valid, repos, issues, issue,
          clientId, clientSecret, xchg, apiCall, request, ready, flows,
          projects, nextId, creates, issuesPage, filterRun, bodyRun,
          integ, connectRun, disconnectRun, pscreen, loads, svcCall>>

storeVars == <<connections, lastOp>>
fetchVars == <<valid, repos, issues, issue>>
exchangeVars == <<clientId, clientSecret, xchg, apiCall>>
oauthVars == <<request, ready, flows>>
projectVars == <<projects, nextId, creates>>
pureVars == <<issuesPage, filterRun, bodyRun>>
integVars == <<integ, connectRun, disconnectRun>>
screenVars == <<pscreen, loads>>
svcVars == <<svcCall>>
uiVars == <<integVars, screenVars, svcVars>>
restVars == <<oauthVars, projectVars, pureVars, uiVars>>

\* ------------------------------------------------- github_connections rows
\* A row keeps the columns the operations read back: the key, the credential
\* and the GitHub identity snapshot (github_user_id stands for the id, login
\* and avatar, which are written and replaced together).
Rows == [user_id : Users, access_token : Tokens, github_user_id : GhUsers]

\* JavaScript null where a row is expected.
NullRow == [user_id |-> 0, access_token |-> 0, github_user_id |-> 0]

RowsOf(store, u) == {r \in store : r.user_id = u}

\* Storage failures other than "no rows": an expired JWT, a cancelled statement.
StorageFailures == {"PGRST301", "57014"}

\* .upsert(connectionData, {onConflict: "user_id"}) without the conflict target:
\* a plain insert.
PlainInsert(store, row) == store \cup {row}

\* .upsert(connectionData, {onConflict: "user_id"}): the row replaces the row
\* with the same user_id.
Upsert(store, row) == {r \in store : r.user_id # row.user_id} \cup {row}

\* .select("*").eq("user_id", userId).single(): the row when exactly one row
\* matches, the PGRST116 error and no data otherwise.
SelectSingle(rows) ==
    IF Cardinality(rows) = 1
    THEN [data |-> CHOOSE r \in rows : TRUE, error |-> "none"]
    ELSE [data |-> NullRow, error |-> "PGRST116"]

\* .delete() with the .eq("user_id", userId) filter left out.
DeleteAll(store, u) == {}

\* .delete().eq("user_id", userId)
DeleteEq(store, u) == {r \in store : r.user_id # u}

\* getConnection with every storage error thrown.
GetConnectionThrowsAll(resp) ==
    IF resp.error # "none"
    THEN [outcome |-> "PersistenceError", data |-> NullRow]
    ELSE [outcome |-> "ok", data |-> resp.data]

\* getConnection, lines 204-208: throw unless the error is PGRST116, else
\* return data (null when the store reported PGRST116).
GetConnectionResult(resp) ==
    IF resp.error # "none" /\ resp.error # "PGRST116"
    THEN [outcome |-> "PersistenceError", data |-> NullRow]
    ELSE [outcome |-> "ok", data |-> resp.data]

\* removeConnection, lines 217-219: throw on any storage error.
RemoveConnectionResult(error) ==
    IF error # "none" THEN "PersistenceError" ELSE "ok"

\* saveConnection, lines 190-194.
SaveConnectionResult(error) ==
    IF error # "none" THEN "PersistenceError" ELSE "ok"

NoOp == [op |-> "none", user |-> 0, row |-> NullRow, dberr |-> "none",
         outcome |-> "ok", data |-> NullRow, before |-> {}]

\* saveConnection(userId, tokens, githubUser)
SaveConnection(u, tok, gh) ==
    \E err \in {"none"} \cup StorageFailures :
        LET row == [user_id |-> u, access_token |-> tok, github_user_id |-> gh]
            after == IF err = "none" THEN Upsert(connections, row) ELSE connections
        IN  /\ connections' = after
            /\ lastOp' = [op |-> "save", user |-> u, row |-> row, dberr |-> err,
                          outcome |-> SaveConnectionResult(err),
                          data |-> IF err = "none" THEN row ELSE NullRow,
                          before |-> connections]
            /\ UNCHANGED <<restVars, fetchVars, exchangeVars>>

\* getConnection(userId)
GetConnection(u) ==
    \E resp \in {SelectSingle(RowsOf(connections, u))}
                \cup [data : {NullRow}, error : StorageFailures] :
        /\ lastOp' = [op |-> "get", user |-> u, row |-> NullRow, dberr |-> resp.error,
                      outcome |-> GetConnectionResult(resp).outcome,
                      data |-> GetConnectionResult(resp).data,
                      before |-> connections]
        /\ UNCHANGED <<restVars, connections, fetchVars, exchangeVars>>

\* removeConnection(userId)
RemoveConnection(u) ==
    \E err \in {"none"} \cup StorageFailures :
        /\ connections' = IF err = "none" THEN DeleteEq(connections, u) ELSE connections
        /\ lastOp' = [op |-> "remove", user |-> u, row |-> NullRow, dberr |-> err,
                      outcome |-> RemoveConnectionResult(err),
                      data |-> NullRow, before |-> connections]
        /\ UNCHANGED <<restVars, fetchVars, exchangeVars>>

\* ------------------------------------------------------------ provider API
\* What a fetch() can produce: a network exception (no response) or a response
\* with an HTTP status.
NoResp == [thrown |-> FALSE, status |-> 0]
Thrown == [thrown |-> TRUE, status |-> 0]

\* The provider answers 401 to a token it does not accept, 200 to one it
\* accepts, and may answer 500 or drop the connection at any time.
ApiResponses(t) ==
    {Thrown} \cup [thrown : {FALSE},
                   status : (IF t \in valid THEN {200} ELSE {401}) \cup {500}]

\* response.ok
ResponseOk(resp) == resp.status \in 200..299

\* validateToken without its try/catch: the network exception escapes.
ValidateTokenNoCatch(resp) ==
    [raised |-> resp.thrown, value |-> ~resp.thrown /\ ResponseOk(resp)]

\* validateToken, lines 222-235: response.ok, and false from the catch block.
ValidateToken(resp) ==
    IF resp.thrown
    THEN [raised |-> FALSE, value |-> FALSE]
    ELSE [raised |-> FALSE, value |-> ResponseOk(resp)]

\* getRepositoriesWithCache with the isValid check dropped.
AlwaysFetch(isValid) == "fetch"

\* getRepositoriesWithCache, lines 242-248: throw when validation failed,
\* otherwise call getUserRepositories.
AfterValidation(isValid) == IF ~isValid THEN "throw" ELSE "fetch"

\* getUser, lines 135-139
GetUserResult(resp) ==
    IF resp.thrown THEN "NetworkError"
    ELSE IF ~ResponseOk(resp) THEN "UserFetchError" ELSE "ok"

\* getUserRepositories reporting a 401 as an expired token.
GetUserRepositoriesExpiredOn401(resp) ==
    IF resp.thrown THEN "NetworkError"
    ELSE IF resp.status = 401 THEN "ExpiredConnection"
    ELSE IF ~ResponseOk(resp) THEN "RepoFetchError" ELSE "ok"

\* getUserRepositories, lines 158-162
GetUserRepositoriesResult(resp) ==
    IF resp.thrown THEN "NetworkError"
    ELSE IF ~ResponseOk(resp) THEN "RepoFetchError" ELSE "ok"

\* getRepositoryIssues, lines 270-275
GetRepositoryIssuesResult(resp) ==
    IF resp.thrown THEN "NetworkError"
    ELSE IF ~ResponseOk(resp) THEN "IssuesFetchError" ELSE "ok"

\* getIssue, lines 295-299
GetIssueResult(resp) ==
    IF resp.thrown THEN "NetworkError"
    ELSE IF ~ResponseOk(resp) THEN "IssueFetchError" ELSE "ok"

\* getIssueComments, lines 321-325
GetIssueCommentsResult(resp) ==
    IF resp.thrown THEN "NetworkError"
    ELSE IF ~ResponseOk(resp) THEN "CommentsFetchError" ELSE "ok"

\* The user revokes the app's access on the provider's side.
Revoke(t) ==
    /\ t \in valid
    /\ valid' = valid \ {t}
    /\ UNCHANGED <<restVars, repos, issues, issue, storeVars, exchangeVars>>

\* What the store answers to the getConnection of a screen.
ConnectionReads(u) ==
    {GetConnectionResult(resp) :
        resp \in {SelectSingle(RowsOf(connections, u))}
                 \cup [data : {NullRow}, error : StorageFailures]}

\* A run of a screen's load: where it is, the connection it read, the tokens
\* validateToken returned true for since that read, the probe of validateToken
\* and its result, and per request how many times it was sent and whether its
\* token had been validated when it was sent (sent2, gated2: the run's second
\* request).
IdleRun == [pc |-> "idle", conn |-> NullRow, validated |-> {},
            probes |-> 0, probe |-> NoResp, checked |-> FALSE, isValid |-> FALSE,
            sent |-> 0, gated |-> FALSE, sent2 |-> 0, gated2 |-> FALSE,
            hasComments |-> FALSE, outcome |-> "none"]

Resting(f) == f.pc \in {"idle", "done"}

\* A validateToken that returned true for t counts for every run that has
\* read a connection with that token and is still under way.
Noting(f, t, isValid) ==
    IF isValid /\ ~Resting(f) /\ f.conn.access_token = t
    THEN [f EXCEPT !.validated = @ \cup {t}] ELSE f

\* ---------------------------------- ProjectsScreen: connection, repositories
\* loadGitHubConnection(currentSession), explore.tsx 119-132: getConnection
\* is awaited.
LoadGitHubConnection ==
    /\ Resting(repos)
    /\ repos' = [IdleRun EXCEPT !.pc = "getConnection"]
    /\ UNCHANGED <<restVars, valid, issues, issue, storeVars, exchangeVars>>

\* getConnection resolved: setConnection, then loadRepositories(existing) ->
\* getRepositoriesWithCache -> validateToken sends its probe.
ReposConnectionRead(u) ==
    /\ repos.pc = "getConnection"
    /\ \E got \in ConnectionReads(u) :
        repos' =
            IF got.outcome # "ok"
            THEN [repos EXCEPT !.pc = "done", !.outcome = got.outcome]
            ELSE IF got.data = NullRow
            THEN [repos EXCEPT !.pc = "done", !.outcome = "NotConnected"]
            ELSE [repos EXCEPT !.pc = "validateToken", !.conn = got.data,
                               !.probes = @ + 1]
    /\ UNCHANGED <<restVars, valid, issues, issue, storeVars, exchangeVars>>

\* The probe of validateToken ended; getRepositoriesWithCache goes on: it
\* throws, or getUserRepositories sends the repository listing request.
ValidateTokenDone ==
    /\ repos.pc = "validateToken"
    /\ \E resp \in ApiResponses(repos.conn.access_token) :
        LET v == ValidateToken(resp)
            t == repos.conn.access_token
            seen == [repos EXCEPT !.probe = resp]
            noted == Noting([seen EXCEPT !.checked = TRUE, !.isValid = v.value],
                            t, v.value)
        IN  IF v.raised
            THEN /\ repos' = [seen EXCEPT !.pc = "done", !.outcome = "NetworkError"]
                 /\ UNCHANGED <<restVars, issues, issue>>
            ELSE /\ repos' =
                      IF AfterValidation(v.value) = "throw"
                      THEN [noted EXCEPT !.pc = "done",
                                         !.outcome = "ExpiredConnection"]
                      ELSE [noted EXCEPT !.pc = "getUserRepositories",
                                         !.sent = @ + 1,
                                         !.gated = t \in noted.validated]
                 /\ issues' = Noting(issues, t, v.value)
                 /\ issue' = Noting(issue, t, v.value)
    /\ UNCHANGED <<restVars, valid, storeVars, exchangeVars>>

\* The repository listing request of getUserRepositories ended.
GetUserRepositoriesDone ==
    /\ repos.pc = "getUserRepositories"
    /\ \E resp \in ApiResponses(repos.conn.access_token) :
        repos' = [repos EXCEPT !.pc = "done",
                               !.outcome = GetUserRepositoriesResult(resp)]
    /\ UNCHANGED <<restVars, valid, issues, issue, storeVars, exchangeVars>>

\* ------------------------------------------------------- IssuesListScreen
\* loadIssues, explore.tsx 883-918 (it returns at once without owner or repo):
\* setLoading(true), getSession is awaited.
LoadIssues ==
    /\ Resting(issues)
    /\ issues' = [IdleRun EXCEPT !.pc = "getSession"]
    /\ UNCHANGED <<restVars, valid, repos, issue, storeVars, exchangeVars>>

\* getSession resolved: without a session the run ends, otherwise
\* getConnection is awaited.
IssuesSessionRead(hasSession) ==
    /\ issues.pc = "getSession"
    /\ issues' = IF hasSession
                 THEN [issues EXCEPT !.pc = "getConnection"]
                 ELSE [issues EXCEPT !.pc = "done", !.outcome = "NoSession"]
    /\ UNCHANGED <<restVars, valid, repos, issue, storeVars, exchangeVars>>

\* getConnection resolved: with a connection, getRepositoryIssues sends its
\* request with connection.access_token.
IssuesConnectionRead(u) ==
    /\ issues.pc = "getConnection"
    /\ \E got \in ConnectionReads(u) :
        issues' =
            IF got.outcome # "ok"
            THEN [issues EXCEPT !.pc = "done", !.outcome = got.outcome]
            ELSE IF got.data = NullRow
            THEN [issues EXCEPT !.pc = "done", !.outcome = "NotConnected"]
            ELSE [issues EXCEPT !.pc = "getRepositoryIssues", !.conn = got.data,
                                !.sent = @ + 1,
                                !.gated = got.data.access_token \in issues.validated]
    /\ UNCHANGED <<restVars, valid, repos, issue, storeVars, exchangeVars>>

\* The issues request ended: setIssues, or the error alert.
GetRepositoryIssuesDone ==
    /\ issues.pc = "getRepositoryIssues"
    /\ \E resp \in ApiResponses(issues.conn.access_token) :
        issues' = [issues EXCEPT !.pc = "done",
                                 !.outcome = GetRepositoryIssuesResult(resp)]
    /\ UNCHANGED <<restVars, valid, repos, issue, storeVars, exchangeVars>>

\* ------------------------------------------------------ IssueDetailScreen
\* loadIssue, explore.tsx 1765-1818.
LoadIssue ==
    /\ Resting(issue)
    /\ issue' = [IdleRun EXCEPT !.pc = "getSession"]
    /\ UNCHANGED <<restVars, valid, repos, issues, storeVars, exchangeVars>>

IssueSessionRead(hasSession) ==
    /\ issue.pc = "getSession"
    /\ issue' = IF hasSession
                THEN [issue EXCEPT !.pc = "getConnection"]
                ELSE [issue EXCEPT !.pc = "done", !.outcome = "NoSession"]
    /\ UNCHANGED <<restVars, valid, repos, issues, storeVars, exchangeVars>>

\* getConnection resolved: with a connection, getIssue sends its request.
IssueConnectionRead(u) ==
    /\ issue.pc = "getConnection"
    /\ \E got \in ConnectionReads(u) :
        issue' =
            IF got.outcome # "ok"
            THEN [issue EXCEPT !.pc = "done", !.outcome = got.outcome]
            ELSE IF got.data = NullRow
            THEN [issue EXCEPT !.pc = "done", !.outcome = "NotConnected"]
            ELSE [issue EXCEPT !.pc = "getIssue", !.conn = got.data,
                               !.sent = @ + 1,
                               !.gated = got.data.access_token \in issue.validated]
    /\ UNCHANGED <<restVars, valid, repos, issues, storeVars, exchangeVars>>

\* The issue request ended: on success setIssue and, when the issue has
\* comments, getIssueComments sends its request with the same token.
GetIssueDone(comments) ==
    /\ issue.pc = "getIssue"
    /\ \E resp \in ApiResponses(issue.conn.access_token) :
        issue' =
            IF GetIssueResult(resp) # "ok"
            THEN [issue EXCEPT !.pc = "done", !.outcome = GetIssueResult(resp)]
            ELSE IF comments > 0
            THEN [issue EXCEPT !.pc = "getIssueComments", !.hasComments = TRUE,
                               !.sent2 = @ + 1,
                               !.gated2 = issue.conn.access_token \in issue.validated]
            ELSE [issue EXCEPT !.pc = "done", !.outcome = "ok"]
    /\ UNCHANGED <<restVars, valid, repos, issues, storeVars, exchangeVars>>

\* The comments request ended: setComments, or the error is logged; the issue
\* stays shown either way.
GetIssueCommentsDone ==
    /\ issue.pc = "getIssueComments"
    /\ \E resp \in ApiResponses(issue.conn.access_token) :
        issue' = [issue EXCEPT !.pc = "done",
                               !.outcome = GetIssueCommentsResult(resp)]
    /\ UNCHANGED <<restVars, valid, repos, issues, storeVars, exchangeVars>>

\* --------------------------------------------------- exchangeCodeForToken
\* A JSON field or an environment variable: absent (undefined), the empty
\* string, or a non-empty string.
Absent == "<absent>"
Truthy(v) == v # Absent /\ v # ""

EnvValues == {Absent, "", "configured"}
Codes == {"", "code1", "code2"}

\* A response body: text that is no JSON, the JSON null, a JSON number, string
\* or boolean, or a JSON object with or without the three fields read.
NoBody == [shape |-> "none", error |-> Absent, error_description |-> Absent,
           access_token |-> Absent]
Bodies ==
    [shape : {"text", "null", "scalar"}, error : {Absent},
     error_description : {Absent}, access_token : {Absent}]
    \cup
    [shape : {"object"}, error : {Absent, "", "bad_verification_code"},
     error_description : {Absent, "", "The code passed is incorrect"},
     access_token : {Absent, "", "gho_token"}]

TokenResponses ==
    {[thrown |-> TRUE, status |-> 0, body |-> NoBody]}
    \cup [thrown : {FALSE}, status : {200, 500}, body : Bodies]

NoTokenResp == [thrown |-> FALSE, status |-> 0, body |-> NoBody]

\* The credentials check with the client secret forgotten.
ConfiguredIdOnly == Truthy(clientId)

\* exchangeCodeForToken, line 72: both credentials are set.
Configured == Truthy(clientId) /\ Truthy(clientSecret)

Raise(kind, message) == [outcome |-> kind, message |-> message, returned |-> NoBody]

\* exchangeCodeForToken with the message built from error_description alone,
\* without the fallback to error.
ExchangeResultNoFallback(resp) ==
    IF resp.thrown THEN Raise("NetworkError", Absent)
    ELSE IF ~ResponseOk(resp) THEN Raise("ProtocolError", "status")
    ELSE IF resp.body.shape = "text" THEN Raise("ProtocolError", "parse")
    ELSE IF resp.body.shape = "null" THEN Raise("TypeError", Absent)
    ELSE IF Truthy(resp.body.error)
    THEN Raise("ProviderError", resp.body.error_description)
    ELSE IF ~Truthy(resp.body.access_token)
    THEN Raise("ProtocolError", "no access token")
    ELSE [outcome |-> "ok", message |-> Absent, returned |-> resp.body]

\* exchangeCodeForToken, lines 93-119, on what fetch produced:
\*   a network exception is rethrown;
\*   !response.ok                       "Failed to exchange code for token"
\*   JSON.parse throws                  "Failed to parse GitHub response"
\*   tokens is null                     reading tokens.error is a TypeError
\*   tokens.error truthy                "GitHub OAuth error: " description || error
\*   tokens.access_token falsy          "No access token received"
\*   otherwise tokens is returned.
ExchangeResult(resp) ==
    IF resp.thrown THEN Raise("NetworkError", Absent)
    ELSE IF ~ResponseOk(resp) THEN Raise("ProtocolError", "status")
    ELSE IF resp.body.shape = "text" THEN Raise("ProtocolError", "parse")
    ELSE IF resp.body.shape = "null" THEN Raise("TypeError", Absent)
    ELSE IF Truthy(resp.body.error)
    THEN Raise("ProviderError",
               IF Truthy(resp.body.error_description)
               THEN resp.body.error_description ELSE resp.body.error)
    ELSE IF ~Truthy(resp.body.access_token)
    THEN Raise("ProtocolError", "no access token")
    ELSE [outcome |-> "ok", message |-> Absent, returned |-> resp.body]

\* The response body written out in the error that line 121 logs (and
\* connectToGitHub's catch block logs again): the three protocol errors carry
\* responseText or JSON.stringify(tokens), the other errors do not.
ExchangeLogged(x) ==
    IF x.pc = "done" /\ x.outcome = "ProtocolError" THEN x.resp.body ELSE NoBody

\* A catch block that sends the request once more before giving up.
ExchangeCatchRetry(posts) == IF posts < 2 THEN "retry" ELSE "rethrow"

\* exchangeCodeForToken, lines 120-123: the catch block logs and rethrows.
ExchangeCatch(posts) == "rethrow"

IdleExchange == [pc |-> "idle", code |-> "", configured |-> FALSE, posts |-> 0,
                 resp |-> NoTokenResp, outcome |-> "none", message |-> Absent,
                 returned |-> NoBody]

\* exchangeCodeForToken(code): the configuration error, or the POST is sent.
ExchangeCodeForToken(code) ==
    /\ xchg.pc \in {"idle", "done"}
    /\ xchg' = IF ~Configured
               THEN [IdleExchange EXCEPT !.pc = "done", !.code = code,
                                         !.outcome = "ConfigurationError"]
               ELSE [IdleExchange EXCEPT !.pc = "fetch", !.code = code,
                                         !.configured = TRUE, !.posts = 1]
    /\ UNCHANGED <<restVars, clientId, clientSecret, apiCall, storeVars, fetchVars>>

\* The POST ended.
ExchangeDone ==
    /\ xchg.pc = "fetch"
    /\ \E resp \in TokenResponses :
        LET r == ExchangeResult(resp)
        IN  xchg' =
                IF r.outcome # "ok" /\ ExchangeCatch(xchg.posts) = "retry"
                THEN [xchg EXCEPT !.posts = @ + 1]
                ELSE [xchg EXCEPT !.pc = "done", !.resp = resp,
                                  !.outcome = r.outcome, !.message = r.message,
                                  !.returned = r.returned]
    /\ UNCHANGED <<restVars, clientId, clientSecret, apiCall, storeVars, fetchVars>>

\* ------------------------------------------- the GET operations, one call
ApiOps == {"getUser", "getUserRepositories", "getRepositoryIssues",
           "getIssue", "getIssueComments"}

ApiResult(op, resp) ==
    CASE op = "getUser" -> GetUserResult(resp)
      [] op = "getUserRepositories" -> GetUserRepositoriesResult(resp)
      [] op = "getRepositoryIssues" -> GetRepositoryIssuesResult(resp)
      [] op = "getIssue" -> GetIssueResult(resp)
      [] op = "getIssueComments" -> GetIssueCommentsResult(resp)

IdleCall == [pc |-> "idle", op |-> "none", token |-> 0, sent |-> 0,
             outcome |-> "none"]

\* getUser(accessToken), getUserRepositories(accessToken), ...: the request
\* is sent.
ApiCall(op, t) ==
    /\ apiCall.pc \in {"idle", "done"}
    /\ apiCall' = [pc |-> "fetch", op |-> op, token |-> t, sent |-> 1,
                   outcome |-> "none"]
    /\ UNCHANGED <<restVars, clientId, clientSecret, xchg, storeVars, fetchVars>>

\* The request ended: the parsed response is returned or the error is thrown.
ApiCallDone ==
    /\ apiCall.pc = "fetch"
    /\ \E resp \in ApiResponses(apiCall.token) :
        apiCall' = [apiCall EXCEPT !.pc = "done",
                                   !.outcome = ApiResult(apiCall.op, resp)]
    /\ UNCHANGED <<restVars, clientId, clientSecret, xchg, storeVars, fetchVars>>

\* ------------------------------------------------------------ OAuth flow
Flows == 1..MaxFlows

\* What promptAsync resolves to: the result type and, for success, whether
\* params.code is there.
PromptResults ==
    [type : {"success"}, code : {"", "code1"}]
    \cup [type : {"cancel", "dismiss", "error", "locked"}, code : {""}]

NoResult == [type |-> "none", code |-> ""]

IdleFlow == [pc |-> "idle", req |-> 0, result |-> NoResult, outcome |-> "none"]

\* startOAuthFlow(), lines 57-66, up to its first await. With this.request
\* null it calls initializeOAuth (lines 38-53): the configuration error, or
\* this.request is set to a new AuthRequest and makeAuthUrlAsync is awaited.
\* With this.request set it calls promptAsync on it at once.
StartOAuthFlow(i) ==
    /\ flows[i].pc \in {"idle", "done"}
    /\ IF request = 0
       THEN IF ~Truthy(clientId)
            THEN /\ flows' = [flows EXCEPT ![i] =
                        [IdleFlow EXCEPT !.pc = "done",
                                         !.outcome = "ConfigurationError"]]
                 /\ UNCHANGED request
            ELSE /\ request' = request + 1
                 /\ flows' = [flows EXCEPT ![i] =
                        [IdleFlow EXCEPT !.pc = "makeAuthUrl", !.req = request']]
       ELSE /\ flows' = [flows EXCEPT ![i] =
                   [IdleFlow EXCEPT !.pc = "prompt", !.req = request]]
            /\ UNCHANGED request
    /\ UNCHANGED <<uiVars, ready, storeVars, fetchVars, exchangeVars, projectVars, pureVars>>

\* makeAuthUrlAsync resolved (line 53): initializeOAuth returns and
\* startOAuthFlow calls promptAsync on this.request (lines 62-66).
MakeAuthUrlDone(i) ==
    /\ flows[i].pc = "makeAuthUrl"
    /\ ready' = ready \cup {flows[i].req}
    /\ flows' = [flows EXCEPT ![i] =
            IF request = 0
            THEN [@ EXCEPT !.pc = "done", !.outcome = "InitializationError"]
            ELSE [@ EXCEPT !.pc = "prompt", !.req = request]]
    /\ UNCHANGED <<uiVars, request, storeVars, fetchVars, exchangeVars, projectVars, pureVars>>

\* makeAuthUrlAsync rejected: initializeOAuth and startOAuthFlow throw;
\* this.request keeps the AuthRequest assigned on line 45.
MakeAuthUrlFailed(i) ==
    /\ flows[i].pc = "makeAuthUrl"
    /\ flows' = [flows EXCEPT ![i] =
            [@ EXCEPT !.pc = "done", !.outcome = "InitializationError"]]
    /\ UNCHANGED <<uiVars, request, ready, storeVars, fetchVars, exchangeVars,
                   projectVars, pureVars>>

\* promptAsync resolved: startOAuthFlow returns the result (lines 66-68);
\* this.request is left as it is.
PromptDone(i) ==
    /\ flows[i].pc = "prompt"
    /\ \E result \in PromptResults :
        flows' = [flows EXCEPT ![i] =
            [@ EXCEPT !.pc = "done", !.result = result, !.outcome = "ok"]]
    /\ UNCHANGED <<uiVars, request, ready, storeVars, fetchVars, exchangeVars,
                   projectVars, pureVars>>

\* ------------------------------------------ getRepositoryIssues: the page
\* An object of the issues endpoint: its number and its pull_request field,
\* which is missing, null, or an object with the pull request's urls.
PageItems == [number : 1..MaxNumbers, pull_request : {"absent", "null", "object"}]

SeqsUpTo(S, n) == UNION {[1..k -> S] : k \in 0..n}

Pages == SeqsUpTo(PageItems, MaxPage)

\* !issue.pull_request is false for an object, true for undefined and null.
HasPullRequest(item) == item.pull_request = "object"

\* getRepositoryIssues returning the parsed page as it is.
KeepPage(page) == page

\* issues.filter((issue) => !issue.pull_request), line 275.
WithoutPullRequests(page) ==
    SelectSeq(page, LAMBDA item : ~HasPullRequest(item))

IdlePage(page) == [pc |-> "idle", page |-> page, outcome |-> "none", listed |-> <<>>]

\* getRepositoryIssues, lines 259-275: the error for a response that is
\* not ok, else the filtered page.
GetRepositoryIssues ==
    /\ issuesPage.pc = "idle"
    /\ \E ok \in BOOLEAN :
        issuesPage' =
            IF ok
            THEN [issuesPage EXCEPT !.pc = "done", !.outcome = "ok",
                      !.listed = WithoutPullRequests(issuesPage.page)]
            ELSE [issuesPage EXCEPT !.pc = "done", !.outcome = "ApiError"]
    /\ UNCHANGED <<uiVars, filterRun, bodyRun, storeVars, fetchVars, exchangeVars,
                   oauthVars, projectVars>>

\* ------------------------------------------- IssuesListScreen: the filter
\* Text is a sequence of characters; NoText is a null body.
NoText == <<"<null>">>

\* String.prototype.toLowerCase on the characters used.
LowerChar(c) == IF c = "A" THEN "a" ELSE IF c = "B" THEN "b" ELSE c

ToLowerCase(text) == [i \in DOMAIN text |-> LowerChar(text[i])]

\* String.prototype.includes
Includes(text, part) ==
    \E k \in 0..(Len(text) - Len(part)) :
        \A i \in 1..Len(part) : text[k + i] = part[i]

\* searchQuery.trim() is a non-empty string.
NonBlank(text) == \E i \in DOMAIN text : text[i] # " "

LabelNames == {<<"a">>, <<"B">>}
Titles == {<<"b">>}
IssueBodies == {NoText, <<"A", "b">>}
Logins == {<<"B">>}
Queries == {<<>>, <<" ">>, <<"a">>, <<"A", "B">>, <<"b", " ">>}
StateFilters == {"all", "open", "closed"}

IssueShapes ==
    [state : {"open", "closed"}, labels : SUBSET LabelNames, title : Titles,
     body : IssueBodies, login : Logins]

\* Issues have different ids: an issue's id is its place in the list loaded.
WithIds(shapes) == [i \in DOMAIN shapes |-> [id |-> i] @@ shapes[i]]

IssueLists == {WithIds(shapes) : shapes \in SeqsUpTo(IssueShapes, MaxIssues)}

Criterias ==
    [filter : StateFilters, selectedLabels : SUBSET LabelNames, searchQuery : Queries]

\* The state pass with every filter but 'closed' taken for 'open'.
StatePassOpenElse(filter, list) ==
    IF filter = "closed"
    THEN SelectSeq(list, LAMBDA i : i.state = "closed")
    ELSE SelectSeq(list, LAMBDA i : i.state = "open")

\* filteredIssues, lines 954-958.
StatePass(filter, list) ==
    IF filter = "open" THEN SelectSeq(list, LAMBDA i : i.state = "open")
    ELSE IF filter = "closed" THEN SelectSeq(list, LAMBDA i : i.state = "closed")
    ELSE list

HasSelectedLabel(selected, i) == \E l \in i.labels : l \in selected

\* The label pass written with find: the first matching issue only.
LabelPassFirst(selected, list) ==
    IF selected # {}
    THEN LET hits == SelectSeq(list, LAMBDA i : HasSelectedLabel(selected, i))
         IN IF hits = <<>> THEN <<>> ELSE <<Head(hits)>>
    ELSE list

\* filteredIssues, lines 960-964.
LabelPass(selected, list) ==
    IF selected # {}
    THEN SelectSeq(list, LAMBDA i : HasSelectedLabel(selected, i))
    ELSE list

\* Lines 969-972: the lowercased query (not trimmed) in the title, the body
\* if there is one, the author's login or a label name.
MatchesQuery(query, i) ==
    \/ Includes(ToLowerCase(i.title), query)
    \/ i.body # NoText /\ Includes(ToLowerCase(i.body), query)
    \/ Includes(ToLowerCase(i.login), query)
    \/ \E l \in i.labels : Includes(ToLowerCase(l), query)

\* The text pass with the query compared as typed, not lowercased.
TextPassRawQuery(searchQuery, list) ==
    IF NonBlank(searchQuery)
    THEN SelectSeq(list, LAMBDA i : MatchesQuery(searchQuery, i))
    ELSE list

\* filteredIssues, lines 966-973.
TextPass(searchQuery, list) ==
    IF NonBlank(searchQuery)
    THEN SelectSeq(list, LAMBDA i : MatchesQuery(ToLowerCase(searchQuery), i))
    ELSE list

\* filteredIssues, lines 951-977: state, then label, then text.
FilteredIssues(list, c) ==
    TextPass(c.searchQuery, LabelPass(c.selectedLabels, StatePass(c.filter, list)))

IdleFilter(list, c) ==
    [pc |-> "idle", issues |-> list, criteria |-> c, filtered |-> <<>>]

\* The filteredIssues memo computed for the issues and criteria held.
ComputeFilteredIssues ==
    /\ filterRun.pc = "idle"
    /\ filterRun' = [filterRun EXCEPT !.pc = "done",
            !.filtered = FilteredIssues(filterRun.issues, filterRun.criteria)]
    /\ UNCHANGED <<uiVars, issuesPage, bodyRun, storeVars, fetchVars, exchangeVars,
                   oauthVars, projectVars>>

NoCriteria == [filter |-> "all", selectedLabels |-> {}, searchQuery |-> <<>>]

\* ----------------------------------- IssueDetailScreen: the body's segments
\* A body is a sequence of atoms: the characters the patterns look at, each
\* an atom of its own, and words of other characters.
IsSpace(a) == a \in {" ", "\n"}

\* textContent.trim() is the empty string.
Blank(text) == \A i \in DOMAIN text : IsSpace(text[i])

\* String.prototype.trim
Trim(text) ==
    LET inked == {i \in DOMAIN text : ~IsSpace(text[i])} IN
    IF inked = {} THEN <<>>
    ELSE SubSeq(text, CHOOSE i \in inked : \A j \in inked : i <= j,
                      CHOOSE i \in inked : \A j \in inked : i >= j)

\* The first place from i on where text holds atom a; 0 when there is none.
FirstAt(text, i, a) ==
    LET at == {j \in i..Len(text) : text[j] = a} IN
    IF at = {} THEN 0 ELSE CHOOSE j \in at : \A k \in at : j <= k

Holds(text, i, a) == i \in DOMAIN text /\ text[i] = a

\* The length of the run of "#" that starts at i.
HashRun(text, i) ==
    LET stop == {j \in i..Len(text) : text[j] # "#"} IN
    IF stop = {} THEN Len(text) - i + 1
    ELSE (CHOOSE j \in stop : \A k \in stop : j <= k) - i

\* The atom of the backquote character.
Backtick == "backquote"

NoMatch == [end |-> 0, alt |-> <<>>, group |-> <<>>]

\* inner+ between an opening that ends at place open and the closing atom:
\* the place of the closing atom, 0 when the inner part is empty or unclosed.
CloseOf(text, open, closing) ==
    LET j == FirstAt(text, open + 1, closing) IN
    IF j > open + 1 THEN j ELSE 0

\* A match of one of the patterns of lines 1857 and 1907-1911 that starts at
\* place i: where it ends and what its groups hold.
\*   media   /!\[([^\]]*)\]\(([^)]+)\)/     header  /#{1,6}\s/
\*   bold    /\*\*([^*]+)\*\*/                italic  /\*([^*]+)\*/
\*   code    /`([^`]+)`/                      link    /\[([^\]]+)\]\([^)]+\)/
MatchAt(pattern, text, i) ==
    IF pattern = "media" THEN
        IF Holds(text, i, "!") /\ Holds(text, i + 1, "[")
        THEN LET j == FirstAt(text, i + 2, "]")
                 k == IF j # 0 /\ Holds(text, j + 1, "(")
                      THEN CloseOf(text, j + 1, ")") ELSE 0
             IN IF k = 0 THEN NoMatch
                ELSE [end |-> k, alt |-> SubSeq(text, i + 2, j - 1),
                      group |-> SubSeq(text, j + 2, k - 1)]
        ELSE NoMatch
    ELSE IF pattern = "header" THEN
        IF Holds(text, i, "#")
        THEN LET n == HashRun(text, i) IN
             IF n <= 6 /\ i + n \in DOMAIN text /\ IsSpace(text[i + n])
             THEN [end |-> i + n, alt |-> <<>>, group |-> <<>>]
             ELSE NoMatch
        ELSE NoMatch
    ELSE IF pattern = "bold" THEN
        IF Holds(text, i, "*") /\ Holds(text, i + 1, "*")
        THEN LET j == CloseOf(text, i + 1, "*") IN
             IF j # 0 /\ Holds(text, j + 1, "*")
             THEN [end |-> j + 1, alt |-> <<>>, group |-> SubSeq(text, i + 2, j - 1)]
             ELSE NoMatch
        ELSE NoMatch
    ELSE IF pattern \in {"italic", "code"} THEN
        LET mark == IF pattern = "italic" THEN "*" ELSE Backtick IN
        IF Holds(text, i, mark)
        THEN LET j == CloseOf(text, i, mark) IN
             IF j # 0
             THEN [end |-> j, alt |-> <<>>, group |-> SubSeq(text, i + 1, j - 1)]
             ELSE NoMatch
        ELSE NoMatch
    ELSE \* link
        IF Holds(text, i, "[")
        THEN LET j == CloseOf(text, i, "]")
                 k == IF j # 0 /\ Holds(text, j + 1, "(")
                      THEN CloseOf(text, j + 1, ")") ELSE 0
             IN IF k = 0 THEN NoMatch
                ELSE [end |-> k, alt |-> <<>>, group |-> SubSeq(text, i + 1, j - 1)]
        ELSE NoMatch

\* text.replace(pattern, '$1') from place i on: every match, left to right,
\* replaced by its group (the header pattern has none: by nothing).
RECURSIVE ReplaceFrom(_, _, _)
ReplaceFrom(pattern, text, i) ==
    IF i > Len(text) THEN <<>>
    ELSE LET m == MatchAt(pattern, text, i) IN
         IF m.end = 0 THEN <<text[i]>> \o ReplaceFrom(pattern, text, i + 1)
         ELSE m.group \o ReplaceFrom(pattern, text, m.end + 1)

\* cleanText, lines 1906-1912.
CleanText(content) ==
    Trim(ReplaceFrom("link",
         ReplaceFrom("code",
         ReplaceFrom("italic",
         ReplaceFrom("bold",
         ReplaceFrom("header", content, 1), 1), 1), 1), 1))

NoAlt == <<"<undefined>">>

\* The media part with the two groups taken for each other.
MediaPartSwapped(m) == [type |-> "media", content |-> m.alt, alt |-> m.group]

\* Lines 1870-1874: content is match[2], alt is match[1].
MediaPart(m) == [type |-> "media", content |-> m.group, alt |-> m.alt]

\* Lines 1864-1868 and 1879-1883: the text between lastIndex and the match
\* (or the end) is pushed when it is there and not blank.
TextParts(body, lastIndex, upTo) ==
    LET textContent == SubSeq(body, lastIndex + 1, upTo) IN
    IF upTo > lastIndex /\ ~Blank(textContent)
    THEN <<[type |-> "text", content |-> textContent, alt |-> NoAlt]>>
    ELSE <<>>

\* The while loop of lines 1862-1877 from place i on, then lines 1879-1884.
RECURSIVE ScanFrom(_, _, _)
ScanFrom(body, i, lastIndex) ==
    IF i > Len(body) THEN TextParts(body, lastIndex, Len(body))
    ELSE LET m == MatchAt("media", body, i) IN
         IF m.end = 0 THEN ScanFrom(body, i + 1, lastIndex)
         ELSE TextParts(body, lastIndex, i - 1) \o <<MediaPart(m)>>
                  \o ScanFrom(body, m.end + 1, m.end)

\* The parts left as the scan made them.
NoFallback(parts, body) == parts

\* Lines 1886-1888.
WithFallback(parts, body) ==
    IF parts = <<>>
    THEN <<[type |-> "text", content |-> body, alt |-> NoAlt]>>
    ELSE parts

\* Lines 1892-1919: a media part is shown as it is, a text part as its
\* cleanText.
Shown(part) ==
    IF part.type = "media" THEN part
    ELSE [part EXCEPT !.content = CleanText(part.content)]

\* renderMarkdownContent, lines 1848-1922: the placeholder for a null or
\* empty body, else the parts shown in their order.
RenderMarkdownContent(body) ==
    IF body.isNull \/ body.text = <<>>
    THEN [placeholder |-> TRUE, segments |-> <<>>]
    ELSE LET parts == WithFallback(ScanFrom(body.text, 1, 0), body.text) IN
         [placeholder |-> FALSE,
          segments |-> [n \in DOMAIN parts |-> Shown(parts[n])]]

\* A media reference ![alt](url) written out.
Reference(alt, url) == <<"!", "[">> \o alt \o <<"]", "(">> \o url \o <<")">>

Alts == {<<>>, <<"alt">>}
Urls == {<<"http://x/y.png">>, <<"clip", ".mp4">>}

\* What bodies are written from: references, and text that holds none and
\* makes none with its neighbours (words, blanks, a header, bold, inline
\* code, a link, a reference without its url part or with an empty one).
ReferenceChunks ==
    {[kind |-> "media", atoms |-> Reference(alt, url), alt |-> alt, url |-> url] :
        alt \in Alts, url \in Urls}

TextChunks ==
    {[kind |-> "text", atoms |-> t, alt |-> <<>>, url |-> <<>>] :
        t \in {<<"intro", " ">>, <<" ", "outro">>, <<" ">>,
                <<"#", "#", " ">>, <<"*", "*", "b", "*", "*">>,
                <<Backtick, "c", Backtick>>, <<"[", "t", "]", "(", "u", ")">>,
                <<"!", "[", "alt", "]">>, <<"!", "[", "alt", "]", "(", ")">>}}

Chunks == ReferenceChunks \cup TextChunks

RECURSIVE Flatten(_)
Flatten(chunks) ==
    IF chunks = <<>> THEN <<>> ELSE Head(chunks).atoms \o Flatten(Tail(chunks))

IdleBody(chunks, isNull) ==
    [pc |-> "idle", chunks |-> chunks,
     body |-> [isNull |-> isNull, text |-> Flatten(chunks)],
     out |-> [placeholder |-> FALSE, segments |-> <<>>]]

\* renderMarkdownContent(issue.body) when the issue is shown.
RenderBody ==
    /\ bodyRun.pc = "idle"
    /\ bodyRun' = [bodyRun EXCEPT !.pc = "done",
                                  !.out = RenderMarkdownContent(bodyRun.body)]
    /\ UNCHANGED <<uiVars, issuesPage, filterRun, storeVars, fetchVars, exchangeVars,
                   oauthVars, projectVars>>

\* ------------------------------------------------------------ projects rows
\* A row keeps its generated id and the two columns of the unique index.
ProjectKeyRows(store, u, g) ==
    {p \in store : p.user_id = u /\ p.github_repo_id = g}

\* .select("id").eq("user_id", ...).eq("github_repo_id", ...).single():
\* the row's id when exactly one row matches, else null (0) and PGRST116.
SelectProject(store, u, g) ==
    LET rows == ProjectKeyRows(store, u, g) IN
    IF Cardinality(rows) = 1
    THEN [data |-> (CHOOSE p \in rows : TRUE).id, error |-> "none"]
    ELSE [data |-> 0, error |-> "PGRST116"]

\* .insert([...]) into a table without projects_user_repo_unique_idx.
InsertNoIndex(store, row) ==
    [store |-> store \cup {row}, data |-> row.id, error |-> "none"]

\* .insert([...]) with the unique index on github_repo_id alone.
InsertRepoUnique(store, row) ==
    IF \E p \in store : p.github_repo_id = row.github_repo_id
    THEN [store |-> store, data |-> 0, error |-> "23505"]
    ELSE [store |-> store \cup {row}, data |-> row.id, error |-> "none"]

\* .insert([{user_id, ...projectData}]).select().single() under
\* projects_user_repo_unique_idx (projects.sql line 30): unique_violation
\* 23505 when the user has a row for the repository, else the row is stored.
InsertProject(store, row) ==
    IF ProjectKeyRows(store, row.user_id, row.github_repo_id) # {}
    THEN [store |-> store, data |-> 0, error |-> "23505"]
    ELSE [store |-> store \cup {row}, data |-> row.id, error |-> "none"]

\* .delete().eq("id", projectId)
DeleteProjectRow(store, id) == {p \in store : p.id # id}

\* hasProjectForRepo, lines 106-111: an error other than PGRST116 is logged
\* and false is returned; otherwise !!data. Nothing is thrown.
HasProjectForRepoResult(resp) ==
    IF resp.error \notin {"none", "PGRST116"}
    THEN [raised |-> FALSE, value |-> FALSE]
    ELSE [raised |-> FALSE, value |-> resp.data # 0]

\* createProject, lines 56-64, as handleCreateProject's catch shows it
\* (error.message): the duplicate message for 23505, else the generic one.
CreateProjectResult(resp) ==
    IF resp.error = "none" THEN "created"
    ELSE IF resp.error = "23505" THEN "DuplicateProject"
    ELSE "CreateFailed"

\* ------------------------------------ ProjectsScreen: create, delete project
\* Two handleCreateProject runs (two screens of one user, or two users).
Runs == {"a", "b"}

IdleCreate ==
    [pc |-> "idle", user |-> 0, repo |-> 0,
     checkErr |-> "none",      \* the error of the pre-check's select
     hasExisting |-> "unknown",\* what hasProjectForRepo returned
     first |-> FALSE,          \* inserted while the other run, past the same
                               \* pre-check, had not inserted yet
     conflict |-> FALSE,       \* a row of the pair was stored at the insert
     rivalGone |-> FALSE,      \* the row the other run created was deleted
                               \* before this run's insert
     insertErr |-> "none", rowId |-> 0, outcome |-> "none", wrote |-> FALSE]

Other(r) == CHOOSE q \in Runs : q # r

\* The ids the table can have generated: the stored project's and one for
\* each run.
ProjectIds == 1..(Cardinality(Runs) + 1)

\* handleCreateProject, lines 154-160, up to the await of hasProjectForRepo.
HandleCreateProject(r, u, g) ==
    /\ creates[r].pc = "idle"
    /\ creates' = [creates EXCEPT ![r] =
            [IdleCreate EXCEPT !.pc = "check", !.user = u, !.repo = g]]
    /\ UNCHANGED <<uiVars, projects, nextId, storeVars, fetchVars, exchangeVars,
                   oauthVars, pureVars>>

\* hasProjectForRepo answered (lines 160-172): the alert and return when it
\* is true, else createProject is called.
HasProjectForRepoDone(r) ==
    /\ creates[r].pc = "check"
    /\ \E fail \in {"none"} \cup StorageFailures :
        LET c == creates[r]
            resp == IF fail = "none"
                    THEN SelectProject(projects, c.user, c.repo)
                    ELSE [data |-> 0, error |-> fail]
            res == HasProjectForRepoResult(resp)
        IN creates' = [creates EXCEPT ![r] =
               IF res.raised
               THEN [c EXCEPT !.pc = "done", !.checkErr = resp.error,
                              !.hasExisting = "raised",
                              !.outcome = "CreateFailed"]
               ELSE IF res.value
               THEN [c EXCEPT !.pc = "done", !.checkErr = resp.error,
                              !.hasExisting = "true",
                              !.outcome = "DuplicateProject"]
               ELSE [c EXCEPT !.pc = "insert", !.checkErr = resp.error,
                              !.hasExisting = "false"]]
    /\ UNCHANGED <<uiVars, projects, nextId, storeVars, fetchVars, exchangeVars,
                   oauthVars, pureVars>>

\* createProject answered (lines 172-183): success, or the catch block's
\* alert with the error's message.
CreateProjectDone(r) ==
    /\ creates[r].pc = "insert"
    /\ \E fail \in {"none"} \cup StorageFailures :
        LET c == creates[r]
            o == creates[Other(r)]
            row == [id |-> nextId, user_id |-> c.user, github_repo_id |-> c.repo]
            resp == IF fail = "none"
                    THEN InsertProject(projects, row)
                    ELSE [store |-> projects, data |-> 0, error |-> fail]
        IN /\ projects' = resp.store
           /\ nextId' = IF resp.error = "none" THEN nextId + 1 ELSE nextId
           /\ creates' = [creates EXCEPT ![r] =
                  [c EXCEPT !.pc = "done",
                            !.first = (o.pc = "insert" /\ o.user = c.user
                                       /\ o.repo = c.repo),
                            !.conflict =
                                (ProjectKeyRows(projects, c.user, c.repo) # {}),
                            !.rivalGone =
                                (/\ o.pc = "done" /\ o.outcome = "created"
                                 /\ o.user = c.user /\ o.repo = c.repo
                                 /\ \A p \in projects : p.id # o.rowId),
                            !.insertErr = resp.error,
                            !.rowId = resp.data,
                            !.outcome = CreateProjectResult(resp),
                            !.wrote = (resp.store # projects)]]
    /\ UNCHANGED <<uiVars, storeVars, fetchVars, exchangeVars, oauthVars, pureVars>>

\* handleDeleteProject's Delete button (lines 197-200) on a project of a
\* loaded list, which may be stale: deleteProject removes the row of that id
\* if there is one. A storage failure leaves everything as it is.
DeleteProject(id) ==
    /\ id \in 1..(nextId - 1)
    /\ projects' = DeleteProjectRow(projects, id)
    /\ UNCHANGED <<uiVars, nextId, creates, storeVars, fetchVars, exchangeVars,
                   oauthVars, pureVars>>

\* ------------------------------------------------ GitHubIntegration component
\* The component of one signed-in user: its connection state, the connecting
\* and loading flags, whether repositories are loaded and one is selected,
\* whether a loadRepositories call is pending, and whether the alert with the
\* Reconnect button is up.
IdleIntegration(u, row) ==
    [user |-> u, connection |-> row, connecting |-> FALSE, loading |-> FALSE,
     repositories |-> FALSE, selectedRepo |-> FALSE,
     loadingRepos |-> row # NullRow, reconnectAlert |-> FALSE]

ConnectSteps == <<"startOAuthFlow", "exchangeCodeForToken", "getUser", "saveConnection">>

\* A connectToGitHub run: the calls issued so far and whether each ended well, the
\* token and GitHub user obtained, whether the store was written, whether
\* the 'Connection Failed' alert was shown.
IdleConnect ==
    [pc |-> "idle", steps |-> <<>>, results |-> <<>>, flow |-> NoResult,
     token |-> 0, ghUser |-> 0, stored |-> {}, wrote |-> FALSE, alerted |-> FALSE, outcome |-> "none"]

\* The state disconnectFromGitHub sets: connection, repositories,
\* selectedRepo and loading.
Local(state) ==
    [connection |-> state.connection, repositories |-> state.repositories,
     selectedRepo |-> state.selectedRepo, loading |-> state.loading]

\* A disconnectFromGitHub run, with the local state before and after the
\* end of removeConnection.
IdleDisconnect ==
    [pc |-> "idle", dberr |-> "none", before |-> Local(IdleIntegration(0, NullRow)),
     after |-> Local(IdleIntegration(0, NullRow)), alerted |-> FALSE]

\* startOAuthFlow can also throw (configuration, makeAuthUrlAsync).
FlowThrown == [type |-> "thrown", code |-> ""]

\* connectToGitHub taking every success result on to the exchange.
FlowBranchAnySuccess(result) ==
    IF result.type = "success" THEN "exchange"
    ELSE IF result.type = "cancel" THEN "cancel"
    ELSE "fail"

\* connectToGitHub, lines 94, 116 and 118: the branch for a flow result.
FlowBranch(result) ==
    IF result.type = "success" /\ Truthy(result.code) THEN "exchange"
    ELSE IF result.type = "cancel" THEN "cancel"
    ELSE "fail"

\* How a run ends without having connected: the catch block's alert for a
\* failure, nothing for a cancel (lines 116-130); connecting goes back to
\* false (line 131).
ConnectEnds(run, outcome) ==
    /\ connectRun' = [run EXCEPT !.pc = "done", !.results = Append(@, "not ok"),
                                 !.outcome = outcome,
                                 !.alerted = (outcome # "cancelled")]
    /\ integ' = [integ EXCEPT !.connecting = FALSE]

\* A step of the run ended well and the next call is issued.
ConnectGoesOn(run, next) ==
    [run EXCEPT !.pc = next, !.results = Append(@, "ok"), !.steps = Append(@, next)]

\* connectToGitHub, lines 86-92: setConnecting(true), startOAuthFlow awaited.
\* The run remembers the store it started from.
StartConnect ==
    /\ connectRun.pc \in {"idle", "done"}
    /\ connectRun' = [IdleConnect EXCEPT !.pc = "startOAuthFlow",
                                         !.steps = <<"startOAuthFlow">>,
                                         !.stored = connections]

\* The Connect button (lines 193-197): shown without a connection and while
\* the component is not loading, disabled while connecting.
PressConnect ==
    /\ integ.connection = NullRow
    /\ ~integ.connecting
    /\ ~integ.loading
    /\ StartConnect
    /\ integ' = [integ EXCEPT !.connecting = TRUE]
    /\ UNCHANGED <<disconnectRun, screenVars, svcVars, storeVars, fetchVars, exchangeVars,
                   oauthVars, projectVars, pureVars>>

\* The Reconnect button of the alert of loadRepositories (line 67).
PressReconnect ==
    /\ integ.reconnectAlert
    /\ StartConnect
    /\ integ' = [integ EXCEPT !.connecting = TRUE, !.reconnectAlert = FALSE]
    /\ UNCHANGED <<disconnectRun, screenVars, svcVars, storeVars, fetchVars, exchangeVars,
                   oauthVars, projectVars, pureVars>>

\* The Cancel button of that alert (line 68).
DismissReconnect ==
    /\ integ.reconnectAlert
    /\ integ' = [integ EXCEPT !.reconnectAlert = FALSE]
    /\ UNCHANGED <<connectRun, disconnectRun, screenVars, svcVars, storeVars, fetchVars,
                   exchangeVars, oauthVars, projectVars, pureVars>>

\* startOAuthFlow ended (lines 92-121).
ConnectFlowDone ==
    /\ connectRun.pc = "startOAuthFlow"
    /\ \E result \in PromptResults \cup {FlowThrown} :
        IF FlowBranch(result) = "exchange"
        THEN /\ connectRun' = [ConnectGoesOn(connectRun, "exchangeCodeForToken")
                                  EXCEPT !.flow = result]
             /\ UNCHANGED integ
        ELSE ConnectEnds([connectRun EXCEPT !.flow = result],
                         IF FlowBranch(result) = "cancel" THEN "cancelled"
                         ELSE "failed")
    /\ UNCHANGED <<disconnectRun, screenVars, svcVars, storeVars, fetchVars, exchangeVars,
                   oauthVars, projectVars, pureVars>>

\* exchangeCodeForToken ended (lines 97-100).
ConnectExchangeDone ==
    /\ connectRun.pc = "exchangeCodeForToken"
    /\ \E resp \in TokenResponses :
        LET r == ExchangeResult(resp) IN
        IF r.outcome = "ok"
        THEN /\ \E tok \in Tokens :
                    connectRun' = [ConnectGoesOn(connectRun, "getUser")
                                      EXCEPT !.token = tok]
             /\ UNCHANGED integ
        ELSE ConnectEnds(connectRun, "failed")
    /\ UNCHANGED <<disconnectRun, screenVars, svcVars, storeVars, fetchVars, exchangeVars,
                   oauthVars, projectVars, pureVars>>

\* getUser ended (lines 100-108).
ConnectUserDone ==
    /\ connectRun.pc = "getUser"
    /\ \E resp \in ApiResponses(connectRun.token) :
        IF GetUserResult(resp) = "ok"
        THEN /\ \E gh \in GhUsers :
                    connectRun' = [ConnectGoesOn(connectRun, "saveConnection")
                                      EXCEPT !.ghUser = gh]
             /\ UNCHANGED integ
        ELSE ConnectEnds(connectRun, "failed")
    /\ UNCHANGED <<disconnectRun, screenVars, svcVars, storeVars, fetchVars, exchangeVars,
                   oauthVars, projectVars, pureVars>>

\* saveConnection ended (lines 103-115): setConnection(savedConnection), on
\* which the effect of lines 79-83 starts loadRepositories.
ConnectSaveDone ==
    /\ connectRun.pc = "saveConnection"
    /\ \E err \in {"none"} \cup StorageFailures :
        LET row == [user_id |-> integ.user, access_token |-> connectRun.token,
                    github_user_id |-> connectRun.ghUser]
        IN IF SaveConnectionResult(err) = "ok"
           THEN /\ connections' = Upsert(connections, row)
                /\ connectRun' = [connectRun EXCEPT !.pc = "done",
                        !.results = Append(@, "ok"), !.outcome = "connected",
                        !.wrote = TRUE]
                /\ integ' = [integ EXCEPT !.connecting = FALSE,
                        !.connection = row, !.loadingRepos = TRUE]
           ELSE /\ ConnectEnds(connectRun, "failed")
                /\ UNCHANGED connections
    /\ UNCHANGED <<lastOp, disconnectRun, screenVars, svcVars, fetchVars, exchangeVars,
                   oauthVars, projectVars, pureVars>>

\* loadRepositories ended (lines 57-72).
LoadRepositoriesEnds(ok) ==
    /\ integ.loadingRepos
    /\ integ' = IF ok
                THEN [integ EXCEPT !.loadingRepos = FALSE, !.repositories = TRUE]
                ELSE [integ EXCEPT !.loadingRepos = FALSE, !.reconnectAlert = TRUE]
    /\ UNCHANGED <<connectRun, disconnectRun, screenVars, svcVars, storeVars, fetchVars,
                   exchangeVars, oauthVars, projectVars, pureVars>>

\* selectRepository (lines 164-167).
SelectRepository ==
    /\ integ.connection # NullRow
    /\ integ.repositories
    /\ ~integ.loading
    /\ integ' = [integ EXCEPT !.selectedRepo = TRUE]
    /\ UNCHANGED <<connectRun, disconnectRun, screenVars, svcVars, storeVars, fetchVars,
                   exchangeVars, oauthVars, projectVars, pureVars>>

\* The local state a failed disconnect leaves: cleared all the same.
AfterRemoveAlwaysCleared(local, result) ==
    [local EXCEPT !.connection = NullRow, !.repositories = FALSE,
                  !.selectedRepo = FALSE, !.loading = FALSE]

\* disconnectFromGitHub, lines 148-157: the three setters after a
\* removeConnection that succeeded, nothing after one that failed;
\* setLoading(false) in both cases.
AfterRemove(local, result) ==
    IF result = "ok"
    THEN [local EXCEPT !.connection = NullRow, !.repositories = FALSE,
                       !.selectedRepo = FALSE, !.loading = FALSE]
    ELSE [local EXCEPT !.loading = FALSE]

\* The Disconnect button of the confirmation (lines 144-149): the X button
\* is shown with a connection while the component is not loading.
PressDisconnect ==
    /\ integ.connection # NullRow
    /\ ~integ.loading
    /\ disconnectRun.pc \in {"idle", "done"}
    /\ disconnectRun' = [IdleDisconnect EXCEPT !.pc = "removeConnection"]
    /\ integ' = [integ EXCEPT !.loading = TRUE]
    /\ UNCHANGED <<connectRun, screenVars, svcVars, storeVars, fetchVars, exchangeVars,
                   oauthVars, projectVars, pureVars>>

\* removeConnection ended (lines 149-157).
DisconnectDone ==
    /\ disconnectRun.pc = "removeConnection"
    /\ \E err \in {"none"} \cup StorageFailures :
        /\ connections' = IF err = "none" THEN DeleteEq(connections, integ.user)
                          ELSE connections
        /\ integ' = AfterRemove(integ, RemoveConnectionResult(err))
        /\ disconnectRun' = [disconnectRun EXCEPT !.pc = "done", !.dberr = err,
                !.before = Local(integ), !.after = Local(integ'),
                !.alerted = (RemoveConnectionResult(err) # "ok")]
    /\ UNCHANGED <<lastOp, connectRun, screenVars, svcVars, fetchVars, exchangeVars,
                   oauthVars, projectVars, pureVars>>

\* ------------------------------------------------------------ ProjectsScreen
\* The screen's session, loading flag, projects, connection, repositories
\* and loadingRepos, and the number of loads it has started. A list is 0
\* when empty and otherwise the number of the load that delivered it.
IdleScreen ==
    [session |-> FALSE, loading |-> FALSE, projects |-> 0, connection |-> FALSE,
     repositories |-> 0, loadingRepos |-> FALSE, started |-> 0]

\* A load in flight: loadProjects and loadGitHubConnection belong to the
\* loadData call that started them, loadRepositories to none.
Load(id, kind, data) == [id |-> id, kind |-> kind, data |-> data]

\* loadData, lines 89-97: setLoading(true), then loadProjects and
\* loadGitHubConnection are started together.
StartLoadData(screen) ==
    /\ screen.started + 2 <= MaxLoads
    /\ pscreen' = [screen EXCEPT !.loading = TRUE, !.started = @ + 2]
    /\ loads' = loads \cup {Load(screen.started + 1, "loadProjects", screen.started + 1),
                             Load(screen.started + 2, "loadGitHubConnection",
                                  screen.started + 1)}

\* loadData, lines 98-102: once both loads of the call have ended,
\* setLoading(false).
AfterLoadData(screen, l) ==
    IF \E o \in loads : o # l /\ o.data = l.data THEN screen
    ELSE [screen EXCEPT !.loading = FALSE]

\* loadRepositories, lines 134-137: setLoadingRepos(true), the request
\* goes out.
StartLoadRepositories(screen, pending) ==
    /\ screen.started + 1 <= MaxLoads
    /\ pscreen' = [screen EXCEPT !.loadingRepos = TRUE, !.started = @ + 1]
    /\ loads' = pending \cup {Load(screen.started + 1, "loadRepositories", 0)}

\* onAuthStateChange with a session, lines 69-72.
SignIn ==
    /\ StartLoadData([pscreen EXCEPT !.session = TRUE])
    /\ UNCHANGED <<integVars, svcVars, storeVars, fetchVars, exchangeVars, oauthVars,
                   projectVars, pureVars>>

\* onAuthStateChange without a session, lines 73-78.
SignOut ==
    /\ pscreen.session
    /\ pscreen' = [pscreen EXCEPT !.session = FALSE, !.loading = FALSE,
                                  !.projects = 0, !.connection = FALSE,
                                  !.repositories = 0]
    /\ UNCHANGED <<loads, integVars, svcVars, storeVars, fetchVars, exchangeVars, oauthVars,
                   projectVars, pureVars>>

\* onRefresh, lines 147-152. The list is rendered with a session and
\* while the screen is not loading (lines 278 and 289).
OnRefresh ==
    /\ pscreen.session
    /\ ~pscreen.loading
    /\ StartLoadData(pscreen)
    /\ UNCHANGED <<integVars, svcVars, storeVars, fetchVars, exchangeVars, oauthVars,
                   projectVars, pureVars>>

\* loadProjects ended, lines 110-116.
LoadProjectsDone(l) ==
    /\ l \in loads
    /\ l.kind = "loadProjects"
    /\ loads' = loads \ {l}
    /\ \E result \in {"empty", "rows", "thrown"} :
        pscreen' = AfterLoadData(
            IF result = "thrown" THEN pscreen
            ELSE [pscreen EXCEPT !.projects = IF result = "rows" THEN l.id ELSE 0], l)
    /\ UNCHANGED <<integVars, svcVars, storeVars, fetchVars, exchangeVars, oauthVars,
                   projectVars, pureVars>>

\* loadGitHubConnection ended, lines 122-131: with a connection it starts
\* loadRepositories without awaiting it.
LoadGitHubConnectionDone(l) ==
    /\ l \in loads
    /\ l.kind = "loadGitHubConnection"
    /\ \E result \in {"none", "row", "thrown"} :
        IF result = "row"
        THEN StartLoadRepositories(
                 AfterLoadData([pscreen EXCEPT !.connection = TRUE], l), loads \ {l})
        ELSE /\ loads' = loads \ {l}
             /\ pscreen' = AfterLoadData(
                    IF result = "thrown" THEN pscreen
                    ELSE [pscreen EXCEPT !.connection = FALSE], l)
    /\ UNCHANGED <<integVars, svcVars, storeVars, fetchVars, exchangeVars, oauthVars,
                   projectVars, pureVars>>

\* openCreateModal, lines 229-244.
OpenCreateModal ==
    /\ pscreen.session
    /\ ~pscreen.loading
    /\ pscreen.connection
    /\ pscreen.repositories = 0
    /\ StartLoadRepositories(pscreen, loads)
    /\ UNCHANGED <<integVars, svcVars, storeVars, fetchVars, exchangeVars, oauthVars,
                   projectVars, pureVars>>

\* openRepoModal, lines 253-269, with its timer run at once.
OpenRepoModal ==
    /\ pscreen.session
    /\ ~pscreen.loading
    /\ pscreen.connection
    /\ ~pscreen.loadingRepos
    /\ StartLoadRepositories(pscreen, loads)
    /\ UNCHANGED <<integVars, svcVars, storeVars, fetchVars, exchangeVars, oauthVars,
                   projectVars, pureVars>>

\* loadRepositories ended, lines 137-144.
LoadRepositoriesDone(l) ==
    /\ l \in loads
    /\ l.kind = "loadRepositories"
    /\ loads' = loads \ {l}
    /\ \E result \in {"empty", "rows", "thrown"} :
        pscreen' = IF result = "thrown"
                   THEN [pscreen EXCEPT !.loadingRepos = FALSE]
                   ELSE [pscreen EXCEPT !.loadingRepos = FALSE,
                            !.repositories = IF result = "rows" THEN l.id ELSE 0]
    /\ UNCHANGED <<integVars, svcVars, storeVars, fetchVars, exchangeVars, oauthVars,
                   projectVars, pureVars>>

AllLoads ==
    [id : 1..MaxLoads,
     kind : {"loadProjects", "loadGitHubConnection", "loadRepositories"},
     data : 0..MaxLoads]

\* ------------------------------------- ProjectService under row level security
\* Here a row also keeps its name, the column updateProject changes.
\* The rows a statement made as uid can see: the USING expression
\* auth.uid() = user_id of the SELECT, UPDATE and DELETE policies
\* (projects.sql lines 36-37, 44-45, 48-49). This one has no policy.
VisibleToAll(store, uid) == store

Visible(store, uid) == {p \in store : p.user_id = uid}

\* The WITH CHECK expression of the INSERT policy (lines 40-41).
InsertAllowed(row, uid) == row.user_id = uid

ProjectNames == {"name1", "name2"}

\* The arguments of a call: the project id, user id, repository and name
\* that the operation uses of them, 0 and "" for those it does not take.
ServiceArgs(id, user, repo, name) ==
    [id |-> id, user |-> user, repo |-> repo, name |-> name]

\* What a ProjectService operation made as uid does to the table and the
\* rows it gets back (part_004 lines 6-111), newId being the id the table
\* generates for an insert.
ServiceCall(store, uid, op, a, newId) ==
    LET seen == Visible(store, uid)
        byId == {p \in seen : p.id = a.id}
    IN CASE op = "getUserProjects" ->
              [store |-> store, data |-> {p \in seen : p.user_id = a.user}]
         [] op = "getProject" ->
              [store |-> store, data |-> byId]
         [] op = "hasProjectForRepo" ->
              [store |-> store, data |-> ProjectKeyRows(seen, a.user, a.repo)]
         [] op = "createProject" ->
              LET row == [id |-> newId, user_id |-> a.user,
                          github_repo_id |-> a.repo, name |-> a.name]
              IN IF ~InsertAllowed(row, uid)
                 THEN [store |-> store, data |-> {}]
                 ELSE IF InsertProject(store, row).error # "none"
                 THEN [store |-> store, data |-> {}]
                 ELSE [store |-> store \cup {row}, data |-> {row}]
         [] op = "updateProject" ->
              LET new == {[p EXCEPT !.name = a.name] : p \in byId}
              IN [store |-> (store \ byId) \cup new, data |-> new]
         [] op = "deleteProject" ->
              [store |-> store \ byId, data |-> {}]

NoServiceCall ==
    [op |-> "none", uid |-> 0, args |-> ServiceArgs(0, 0, 0, ""),
     newId |-> 0, before |-> {}, after |-> {}, data |-> {}]

\* A signed-in user uid makes a ProjectService call with any arguments and
\* the table executes its statement; the calls are followed one at a time.
CallService(uid, op, a) ==
    /\ svcCall.op = "none"
    /\ op = "createProject" => nextId <= MaxProjectRows
    /\ LET res == ServiceCall(projects, uid, op, a, nextId) IN
        /\ projects' = res.store
        /\ nextId' = IF res.store # projects /\ op = "createProject"
                     THEN nextId + 1 ELSE nextId
        /\ svcCall' = [op |-> op, uid |-> uid, args |-> a, newId |-> nextId,
                       before |-> projects, after |-> res.store, data |-> res.data]
    /\ UNCHANGED <<creates, integVars, screenVars, storeVars, fetchVars, exchangeVars,
                   oauthVars, pureVars>>

\* The call returns to its caller.
ServiceReturns ==
    /\ svcCall.op # "none"
    /\ svcCall' = NoServiceCall
    /\ UNCHANGED <<projectVars, integVars, screenVars, storeVars, fetchVars,
                   exchangeVars, oauthVars, pureVars>>

\* ---------------------------------------------------------- specifications
\* Stores with at most one row per user: what saveConnection and
\* removeConnection leave (StoreKeyed, checked under SpecConn).
KeyedStores ==
    {s \in SUBSET Rows : \A r1, r2 \in s : r1.user_id = r2.user_id => r1 = r2}

\* No call of the service is running and no AuthRequest has been made.
InitCalls ==
    /\ lastOp = NoOp
    /\ repos = IdleRun
    /\ issues = IdleRun
    /\ issue = IdleRun
    /\ xchg = IdleExchange
    /\ apiCall = IdleCall
    /\ request = 0
    /\ ready = {}
    /\ flows = [i \in Flows |-> IdleFlow]

InitNoProjects ==
    /\ projects = {}
    /\ nextId = 1
    /\ creates = [r \in Runs |-> IdleCreate]

InitNoPage == issuesPage = IdlePage(<<>>)

InitNoFilter == filterRun = IdleFilter(<<>>, NoCriteria)

InitNoBody == bodyRun = IdleBody(<<>>, TRUE)

InitNoIntegration ==
    /\ integ = IdleIntegration(0, NullRow)
    /\ connectRun = IdleConnect
    /\ disconnectRun = IdleDisconnect

InitNoScreen ==
    /\ pscreen = IdleScreen
    /\ loads = {}
    /\ svcCall = NoServiceCall

InitRest ==
    /\ InitCalls
    /\ InitNoProjects
    /\ InitNoPage
    /\ InitNoFilter
    /\ InitNoBody
    /\ InitNoIntegration
    /\ InitNoScreen

\* The service configured, with no connection stored.
InitService ==
    /\ connections = {}
    /\ valid = Tokens
    /\ clientId = "configured"
    /\ clientSecret = "configured"
    /\ InitCalls

\* The connection store and its three operations.
InitConn ==
    /\ connections = {}
    /\ valid = Tokens
    /\ clientId = "configured"
    /\ clientSecret = "configured"
    /\ InitRest

NextConn ==
    \/ \E u \in Users, tok \in Tokens, gh \in GhUsers : SaveConnection(u, tok, gh)
    \/ \E u \in Users : GetConnection(u)
    \/ \E u \in Users : RemoveConnection(u)

SpecConn == InitConn /\ [][NextConn]_vars

\* The screens' loads over a store holding any connections.
InitFetch ==
    /\ connections \in KeyedStores
    /\ valid = Tokens
    /\ clientId = "configured"
    /\ clientSecret = "configured"
    /\ InitRest

NextFetch ==
    \/ \E t \in Tokens : Revoke(t)
    \/ LoadGitHubConnection
    \/ \E u \in Users : ReposConnectionRead(u)
    \/ ValidateTokenDone
    \/ GetUserRepositoriesDone
    \/ LoadIssues
    \/ \E b \in BOOLEAN : IssuesSessionRead(b)
    \/ \E u \in Users : IssuesConnectionRead(u)
    \/ GetRepositoryIssuesDone
    \/ LoadIssue
    \/ \E b \in BOOLEAN : IssueSessionRead(b)
    \/ \E u \in Users : IssueConnectionRead(u)
    \/ \E n \in 0..MaxComments : GetIssueDone(n)
    \/ GetIssueCommentsDone

SpecFetch == InitFetch /\ [][NextFetch]_vars

\* getRepositoriesWithCache alone, with the provider revoking tokens.
NextRepos ==
    \/ \E t \in Tokens : Revoke(t)
    \/ LoadGitHubConnection
    \/ \E u \in Users : ReposConnectionRead(u)
    \/ ValidateTokenDone
    \/ GetUserRepositoriesDone

SpecRepos == InitFetch /\ [][NextRepos]_vars

\* The token exchange and the GET operations under any configuration.
InitExchange ==
    /\ connections = {}
    /\ valid \in SUBSET Tokens
    /\ clientId \in EnvValues
    /\ clientSecret \in EnvValues
    /\ InitRest

NextExchange ==
    \/ \E code \in Codes : ExchangeCodeForToken(code)
    \/ ExchangeDone
    \/ \E op \in ApiOps, t \in Tokens : ApiCall(op, t)
    \/ ApiCallDone

SpecExchange == InitExchange /\ [][NextExchange]_vars

\* The OAuth flow of one GitHubService instance (the module exports one:
\* githubService, line 329); the client id is set or not.
InitOAuth ==
    /\ connections = {}
    /\ valid = Tokens
    /\ clientId \in EnvValues
    /\ clientSecret = "configured"
    /\ InitRest

NextOAuth ==
    \/ \E i \in Flows : StartOAuthFlow(i)
    \/ \E i \in Flows : MakeAuthUrlDone(i)
    \/ \E i \in Flows : MakeAuthUrlFailed(i)
    \/ \E i \in Flows : PromptDone(i)

SpecOAuth == InitOAuth /\ [][NextOAuth]_vars

\* The projects table, empty or holding one project, and two
\* handleCreateProject runs with the deletions of the projects screen.
InitProjects ==
    /\ InitService
    /\ InitNoIntegration
    /\ InitNoScreen
    /\ \E u \in Users, g \in Repos :
           projects \in {{}, {[id |-> 1, user_id |-> u, github_repo_id |-> g]}}
    /\ nextId = Cardinality(projects) + 1
    /\ creates = [r \in Runs |-> IdleCreate]
    /\ InitNoPage
    /\ InitNoFilter
    /\ InitNoBody

NextProjects ==
    \/ \E r \in Runs, u \in Users, g \in Repos : HandleCreateProject(r, u, g)
    \/ \E r \in Runs : HasProjectForRepoDone(r)
    \/ \E r \in Runs : CreateProjectDone(r)
    \/ \E id \in ProjectIds : DeleteProject(id)

SpecProjects == InitProjects /\ [][NextProjects]_vars

\* getRepositoryIssues on any response page.
InitPage ==
    /\ InitService
    /\ InitNoIntegration
    /\ InitNoScreen
    /\ InitNoProjects
    /\ \E page \in Pages : issuesPage = IdlePage(page)
    /\ InitNoFilter
    /\ InitNoBody

NextPage == GetRepositoryIssues

SpecPage == InitPage /\ [][NextPage]_vars

\* filteredIssues on any issues and criteria.
InitFilter ==
    /\ InitService
    /\ InitNoIntegration
    /\ InitNoScreen
    /\ InitNoProjects
    /\ InitNoPage
    /\ \E list \in IssueLists, c \in Criterias : filterRun = IdleFilter(list, c)
    /\ InitNoBody

NextFilter == ComputeFilteredIssues

SpecFilter == InitFilter /\ [][NextFilter]_vars

\* renderMarkdownContent on a null body and on any written body.
InitBody ==
    /\ InitService
    /\ InitNoIntegration
    /\ InitNoScreen
    /\ InitNoProjects
    /\ InitNoPage
    /\ InitNoFilter
    /\ \/ bodyRun = IdleBody(<<>>, TRUE)
       \/ \E chunks \in SeqsUpTo(Chunks, MaxChunks) :
              bodyRun = IdleBody(chunks, FALSE)

NextBody == RenderBody

SpecBody == InitBody /\ [][NextBody]_vars

\* The GitHubIntegration component of a signed-in user, mounted with or
\* without a stored connection, against a store that holds that row or none.
InitIntegration ==
    /\ valid = Tokens
    /\ clientId = "configured"
    /\ clientSecret = "configured"
    /\ InitCalls
    /\ InitNoProjects
    /\ InitNoPage
    /\ InitNoFilter
    /\ InitNoBody
    /\ InitNoScreen
    /\ connectRun = IdleConnect
    /\ disconnectRun = IdleDisconnect
    /\ \E u \in Users :
        \/ connections = {} /\ integ = IdleIntegration(u, NullRow)
        \/ \E t \in Tokens, g \in GhUsers :
            LET row == [user_id |-> u, access_token |-> t, github_user_id |-> g]
            IN connections = {row} /\ integ = IdleIntegration(u, row)

NextIntegration ==
    \/ PressConnect
    \/ PressReconnect
    \/ DismissReconnect
    \/ ConnectFlowDone
    \/ ConnectExchangeDone
    \/ ConnectUserDone
    \/ ConnectSaveDone
    \/ \E ok \in BOOLEAN : LoadRepositoriesEnds(ok)
    \/ SelectRepository
    \/ PressDisconnect
    \/ DisconnectDone

SpecIntegration == InitIntegration /\ [][NextIntegration]_vars

\* The Projects screen, mounted with no session.
InitScreen ==
    /\ InitService
    /\ InitNoProjects
    /\ InitNoPage
    /\ InitNoFilter
    /\ InitNoBody
    /\ InitNoIntegration
    /\ InitNoScreen

NextScreen ==
    \/ SignIn
    \/ SignOut
    \/ OnRefresh
    \/ OpenCreateModal
    \/ OpenRepoModal
    \/ \E l \in AllLoads :
        \/ LoadProjectsDone(l)
        \/ LoadGitHubConnectionDone(l)
        \/ LoadRepositoriesDone(l)

SpecScreen == InitScreen /\ [][NextScreen]_vars

\* The projects table, empty, and the signed-in users calling ProjectService.
InitIsolation ==
    /\ InitService
    /\ InitNoProjects
    /\ InitNoPage
    /\ InitNoFilter
    /\ InitNoBody
    /\ InitNoIntegration
    /\ InitNoScreen

NextIsolation ==
    \/ ServiceReturns
    \/ \E uid \in Users :
        \/ \E u \in Users :
            CallService(uid, "getUserProjects", ServiceArgs(0, u, 0, ""))
        \/ \E id \in 1..MaxProjectRows :
            CallService(uid, "getProject", ServiceArgs(id, 0, 0, ""))
        \/ \E u \in Users, g \in Repos :
            CallService(uid, "hasProjectForRepo", ServiceArgs(0, u, g, ""))
        \/ \E u \in Users, g \in Repos :
            CallService(uid, "createProject", ServiceArgs(0, u, g, "name1"))
        \/ \E id \in 1..MaxProjectRows, n \in ProjectNames :
            CallService(uid, "updateProject", ServiceArgs(id, 0, 0, n))
        \/ \E id \in 1..MaxProjectRows :
            CallService(uid, "deleteProject", ServiceArgs(id, 0, 0, ""))

SpecIsolation == InitIsolation /\ [][NextIsolation]_vars

Next == NextConn \/ NextFetch \/ NextExchange \/ NextOAuth \/ NextProjects
            \/ NextPage \/ NextFilter \/ NextBody
            \/ NextIntegration \/ NextScreen \/ NextIsolation

Spec == InitConn /\ [][Next]_vars

\* ------------------------------------------------------------------ claims
StatusOk(resp) == ~resp.thrown /\ resp.status \in 200..299

\* C1: every repository or issue request sent with a stored connection's
\* token was preceded, after the connection was read, by a validateToken on
\* that token that returned true.
C1_FetchAfterValidation ==
    /\ repos.sent > 0 => repos.gated
    /\ issues.sent > 0 => issues.gated
    /\ issue.sent > 0 => issue.gated
    /\ issue.sent2 > 0 => issue.gated2

\* C2: getRepositoriesWithCache validates first; while the probe is out no
\* listing request has been sent, a listing request is sent only after
\* validation returned true, and after a validation that returned false the
\* call has failed with the expired-connection error and sent no listing request.
C2_ValidateBeforeListing ==
    /\ repos.pc = "validateToken" => repos.probes = 1 /\ repos.sent = 0
    /\ repos.sent > 0 => repos.checked /\ repos.isValid
    /\ (repos.checked /\ ~repos.isValid) =>
           /\ repos.pc = "done"
           /\ repos.outcome = "ExpiredConnection"
           /\ repos.sent = 0

C2_Witness ==
    /\ repos.pc = "done"
    /\ repos.outcome = "ExpiredConnection"
    /\ repos.probe.status = 401
    /\ repos.sent = 0

\* C3: once the probe of validateToken has ended, validateToken has returned
\* (it did not raise) a boolean that is true exactly when the probe completed
\* with a success status.
C3_ValidateNeverRaises ==
    repos.probe # NoResp =>
        /\ repos.checked
        /\ repos.isValid \in BOOLEAN
        /\ repos.isValid <=> StatusOk(repos.probe)

C3_Witness ==
    /\ repos.probe.thrown
    /\ repos.checked
    /\ ~repos.isValid
    /\ repos.outcome = "ExpiredConnection"

ExchangeAnswered == xchg.pc = "done" /\ xchg.configured /\ ~xchg.resp.thrown

\* C4: exchangeCodeForToken returns a token object only for a response with a
\* non-empty access_token, and fails with the protocol error for every
\* response that has neither an access_token nor an error field.
C4_NoPartialToken ==
    ExchangeAnswered =>
        /\ xchg.outcome = "ok" => Truthy(xchg.resp.body.access_token)
        /\ (xchg.resp.body.access_token = Absent /\ xchg.resp.body.error = Absent)
               => xchg.outcome = "ProtocolError"

ProviderMessage(body) ==
    IF Truthy(body.error_description) THEN body.error_description ELSE body.error

\* C5 as stated: every response whose body is a JSON object with an error
\* field fails with the provider error, its message error_description or,
\* when that is absent or empty, error.
C5_AnyErrorField ==
    (ExchangeAnswered /\ xchg.resp.body.shape = "object"
                      /\ xchg.resp.body.error # Absent) =>
        /\ xchg.outcome = "ProviderError"
        /\ xchg.message = ProviderMessage(xchg.resp.body)

\* C5 as amended: every response with a success status whose body is a JSON
\* object with a non-empty error field fails with the provider error, its
\* message error_description or, when that is absent or empty, error.
C5_TruthyErrorOnSuccessStatus ==
    (ExchangeAnswered /\ StatusOk(xchg.resp)
                      /\ xchg.resp.body.shape = "object"
                      /\ Truthy(xchg.resp.body.error)) =>
        /\ xchg.outcome = "ProviderError"
        /\ xchg.message = ProviderMessage(xchg.resp.body)

C5_Witness ==
    /\ ExchangeAnswered
    /\ xchg.outcome = "ProviderError"
    /\ xchg.resp.body.error_description = ""
    /\ xchg.message = "bad_verification_code"

\* C6: with the client identifier or the client secret not configured, no
\* request is ever sent to the token endpoint and every finished call, for
\* any code, has failed with the configuration error.
C6_ConfigErrorBeforeRequest ==
    (~Truthy(clientId) \/ ~Truthy(clientSecret)) =>
        /\ xchg.posts = 0
        /\ xchg.pc # "fetch"
        /\ xchg.pc = "done" => xchg.outcome = "ConfigurationError"

C6_Witness ==
    /\ Truthy(clientId)
    /\ clientSecret = Absent
    /\ xchg.pc = "done"
    /\ xchg.code = "code1"
    /\ xchg.outcome = "ConfigurationError"

\* C7 as stated: every finished exchangeCodeForToken call has sent exactly
\* one POST, and no call of a GET operation sends more than one request.
C7_ExactlyOnePost ==
    /\ xchg.posts <= 1
    /\ xchg.pc = "done" => xchg.posts = 1
    /\ apiCall.sent <= 1

\* C7 as amended: an exchangeCodeForToken call sends exactly one POST when
\* the credentials are configured and none when they are not, a failed
\* exchange included; a call of getUser, getUserRepositories,
\* getRepositoryIssues, getIssue or getIssueComments sends exactly one request.
C7_NoRetry ==
    /\ xchg.posts <= 1
    /\ xchg.pc = "done" =>
           xchg.posts = (IF Truthy(clientId) /\ Truthy(clientSecret) THEN 1 ELSE 0)
    /\ apiCall.sent <= 1
    /\ apiCall.pc = "done" => apiCall.sent = 1

C7_Witness ==
    /\ xchg.pc = "done"
    /\ xchg.outcome \in {"NetworkError", "ProtocolError", "ProviderError"}
    /\ xchg.posts = 1
    /\ apiCall.pc = "done"
    /\ apiCall.outcome # "ok"
    /\ apiCall.sent = 1

\* C8: the store never holds two connections of one user, and right after a
\* successful saveConnection the user's only connection is the one just saved.
C8_OneConnectionPerUser ==
    /\ \A u \in Users : Cardinality(RowsOf(connections, u)) <= 1
    /\ (lastOp.op = "save" /\ lastOp.outcome = "ok") =>
           RowsOf(connections, lastOp.user) = {lastOp.row}

C8_Witness ==
    /\ lastOp.op = "save"
    /\ lastOp.outcome = "ok"
    /\ \E r \in RowsOf(lastOp.before, lastOp.user) :
           /\ r.access_token # lastOp.row.access_token
           /\ r.github_user_id # lastOp.row.github_user_id

\* C9: getConnection returns null, raising nothing, for a user without a
\* connection (the store answers PGRST116); it returns the row when there is
\* one; every other storage error makes it fail with the persistence error.
C9_AbsentIsNull ==
    lastOp.op = "get" =>
        /\ (RowsOf(lastOp.before, lastOp.user) = {}
                /\ lastOp.dberr \notin StorageFailures) =>
               lastOp.dberr = "PGRST116"
        /\ lastOp.dberr = "PGRST116" =>
               lastOp.outcome = "ok" /\ lastOp.data = NullRow
        /\ lastOp.dberr = "none" =>
               lastOp.outcome = "ok" /\ lastOp.data \in RowsOf(lastOp.before, lastOp.user)
        /\ lastOp.dberr \notin {"none", "PGRST116"} =>
               lastOp.outcome = "PersistenceError"

C9_Witness ==
    /\ lastOp.op = "get"
    /\ RowsOf(lastOp.before, lastOp.user) = {}
    /\ lastOp.before # {}
    /\ lastOp.outcome = "ok"
    /\ lastOp.data = NullRow

\* C10: removeConnection succeeds whenever the store reports no error, also
\* for a user without a connection, and then leaves the store as it was;
\* after a successful removeConnection the user has no connection (a
\* getConnection answered by the store returns null) and the other users'
\* connections are as before; a failed removeConnection changes nothing.
C10_RemoveIsSafe ==
    lastOp.op = "remove" =>
        /\ lastOp.dberr = "none" => lastOp.outcome = "ok"
        /\ lastOp.outcome = "ok" =>
               /\ RowsOf(connections, lastOp.user) = {}
               /\ GetConnectionResult(
                      SelectSingle(RowsOf(connections, lastOp.user))).data = NullRow
               /\ \A u \in Users \ {lastOp.user} :
                      RowsOf(connections, u) = RowsOf(lastOp.before, u)
               /\ RowsOf(lastOp.before, lastOp.user) = {} =>
                      connections = lastOp.before
        /\ lastOp.outcome # "ok" => connections = lastOp.before

C10_Witness ==
    /\ lastOp.op = "remove"
    /\ lastOp.outcome = "ok"
    /\ RowsOf(lastOp.before, lastOp.user) = {}
    /\ lastOp.before # {}
    /\ connections = lastOp.before

\* C11: no two OAuth flows of the service run at the same time: at most one
\* startOAuthFlow call is between its start and the resolution of its prompt.
InFlight == {i \in Flows : flows[i].pc \in {"makeAuthUrl", "prompt"}}

C11_OneFlowAtATime == Cardinality(InFlight) <= 1

\* C12: once a startOAuthFlow call has resolved with the cancel outcome, the
\* request field does not hold the request that call prompted.
C12_CancelDropsRequest ==
    \A i \in Flows :
        (flows[i].pc = "done" /\ flows[i].result.type = "cancel")
            => request # flows[i].req

\* C13: a create for a repository the user already has a project for fails
\* with the duplicate-project error and writes nothing: when the pre-check
\* finds the row, and when the insert meets the row; an insert the store
\* fails to run writes nothing either.
C13_DuplicateCreateFails ==
    \A r \in Runs :
        LET c == creates[r] IN
        c.pc = "done" =>
            /\ c.hasExisting = "true" =>
                   c.outcome = "DuplicateProject" /\ ~c.wrote
            /\ c.conflict =>
                   /\ ~c.wrote
                   /\ c.insertErr \notin StorageFailures =>
                          c.outcome = "DuplicateProject"

\* The pre-check saw no project, another run created one, and the insert failed
\* as a duplicate with the store unchanged.
C13_Witness ==
    \E r \in Runs :
        /\ creates[r].pc = "done"
        /\ creates[r].checkErr = "PGRST116"
        /\ creates[r].conflict
        /\ creates[r].outcome = "DuplicateProject"
        /\ ~creates[r].wrote
        /\ creates[Other(r)].outcome = "created"

OneRowPerUserRepo ==
    \A p1, p2 \in projects :
        (p1.user_id = p2.user_id /\ p1.github_repo_id = p2.github_repo_id)
            => p1 = p2

Created(r) == creates[r].pc = "done" /\ creates[r].outcome = "created"

\* Both runs are done, and r inserted while the other run, for the same user
\* and repository, had passed the pre-check and not yet inserted.
RacedFirst(r) ==
    /\ creates[r].pc = "done"
    /\ creates[Other(r)].pc = "done"
    /\ creates[r].first

\* C14 as stated: at most one row per (user_id, github_repo_id), and of two
\* creates that both passed the pre-check before either inserted exactly one
\* succeeds.
C14_ExactlyOneRacerSucceeds ==
    /\ OneRowPerUserRepo
    /\ \A r \in Runs :
           RacedFirst(r) => (Created(r) /\ ~Created(Other(r)))
                                \/ (~Created(r) /\ Created(Other(r)))

\* C14, amended: at most one row per (user_id, github_repo_id) at all times;
\* of two racing creates, when the store runs both inserts, no row of the
\* pair is stored at the first insert and the row the first one creates is
\* not deleted before the second insert, the first succeeds and the second
\* fails as a duplicate without writing.
C14_OneRowAndFirstRacerWins ==
    /\ OneRowPerUserRepo
    /\ \A r \in Runs :
           (/\ RacedFirst(r)
            /\ ~creates[r].conflict
            /\ creates[r].insertErr \notin StorageFailures
            /\ creates[Other(r)].insertErr \notin StorageFailures
            /\ ~creates[Other(r)].rivalGone)
               => /\ Created(r)
                  /\ creates[Other(r)].outcome = "DuplicateProject"
                  /\ ~creates[Other(r)].wrote

C14_Witness ==
    \E r \in Runs :
        /\ RacedFirst(r)
        /\ creates[r].checkErr = "PGRST116"
        /\ creates[Other(r)].checkErr = "PGRST116"
        /\ Created(r)
        /\ creates[Other(r)].outcome = "DuplicateProject"
        /\ ~creates[Other(r)].rivalGone
        /\ Cardinality(ProjectKeyRows(projects, creates[r].user,
                                       creates[r].repo)) = 1

\* C20: no operation other than validateToken returns normally when its
\* storage call failed: a hasProjectForRepo whose select failed with a
\* genuine storage error raises.
C20_FailuresRaise ==
    \A r \in Runs :
        creates[r].checkErr \in StorageFailures
            => creates[r].hasExisting = "raised"

\* The issues among the first i objects of the page.
IssuesUpTo(page, i) == {j \in 1..i : ~HasPullRequest(page[j])}

\* C15: what getRepositoryIssues returns holds no pull request and is exactly
\* the page's objects without a pull_request reference, in the page's order:
\* the k-th such object of the page is the k-th object returned.
C15_IssuesOnlyInOrder ==
    (issuesPage.pc = "done" /\ issuesPage.outcome = "ok") =>
        LET page == issuesPage.page
            listed == issuesPage.listed
        IN /\ \A k \in 1..Len(listed) : ~HasPullRequest(listed[k])
           /\ Len(listed) = Cardinality(IssuesUpTo(page, Len(page)))
           /\ \A i \in 1..Len(page) :
                  ~HasPullRequest(page[i]) =>
                      listed[Cardinality(IssuesUpTo(page, i))] = page[i]

\* A pull request between two different issues was dropped.
C15_Witness ==
    /\ issuesPage.pc = "done"
    /\ issuesPage.outcome = "ok"
    /\ Len(issuesPage.page) = 3
    /\ HasPullRequest(issuesPage.page[2])
    /\ Len(issuesPage.listed) = 2
    /\ issuesPage.listed[1] # issuesPage.listed[2]

IdsOf(list) == {list[i].id : i \in DOMAIN list}

\* One of the three predicates of the filter applied to a list.
ApplyPass(name, list, c) ==
    IF name = "state" THEN StatePass(c.filter, list)
    ELSE IF name = "label" THEN LabelPass(c.selectedLabels, list)
    ELSE TextPass(c.searchQuery, list)

PassOrders ==
    {o \in [1..3 -> {"state", "label", "text"}] : \A i, j \in 1..3 : o[i] = o[j] => i = j}

InOrder(o, list, c) ==
    ApplyPass(o[3], ApplyPass(o[2], ApplyPass(o[1], list, c), c), c)

\* C16: for all issues and criteria, the state, label and text predicates
\* applied in any of their six orders give the set of issues filteredIssues
\* gives.
C16_OrderIndependent ==
    filterRun.pc = "done" =>
        \A o \in PassOrders :
            IdsOf(InOrder(o, filterRun.issues, filterRun.criteria))
                = IdsOf(filterRun.filtered)

\* All three predicates are active and each of two issues is dropped or kept.
C16_Witness ==
    /\ filterRun.pc = "done"
    /\ filterRun.criteria.filter = "open"
    /\ filterRun.criteria.selectedLabels # {}
    /\ NonBlank(filterRun.criteria.searchQuery)
    /\ Len(filterRun.issues) = 2
    /\ Len(filterRun.filtered) = 1
    /\ \E i \in 1..2 :
           /\ filterRun.issues[i].state = "open"
           /\ HasSelectedLabel(filterRun.criteria.selectedLabels, filterRun.issues[i])
           /\ filterRun.issues[i] # filterRun.filtered[1]

\* C17: with filter 'all', no selected label and the empty query the ids of
\* filteredIssues are the ids of the issues.
C17_EmptyCriteriaKeepAll ==
    (filterRun.pc = "done" /\ filterRun.criteria = NoCriteria) =>
        IdsOf(filterRun.filtered) = IdsOf(filterRun.issues)

C17_Witness ==
    /\ filterRun.pc = "done"
    /\ filterRun.criteria = NoCriteria
    /\ Len(filterRun.issues) = 2
    /\ filterRun.issues[1].state # filterRun.issues[2].state
    /\ IdsOf(filterRun.filtered) = {1, 2}

\* The text segment a run of text between references is to give.
RunSegment(run) ==
    IF Blank(run) THEN <<>>
    ELSE <<[type |-> "text", content |-> CleanText(run), alt |-> NoAlt]>>

\* The segments a written body is to give: one media segment for each
\* reference, one text segment for each run of text that is not blank.
RECURSIVE ExpectedFrom(_, _)
ExpectedFrom(chunks, run) ==
    IF chunks = <<>> THEN RunSegment(run)
    ELSE IF Head(chunks).kind = "media"
    THEN RunSegment(run)
             \o <<[type |-> "media", content |-> Head(chunks).url,
                   alt |-> Head(chunks).alt]>>
             \o ExpectedFrom(Tail(chunks), <<>>)
    ELSE ExpectedFrom(Tail(chunks), run \o Head(chunks).atoms)

ExampleBody ==
    <<"intro", " ", "!", "[", "alt", "]", "(", "http://x/y.png", ")", " ", "outro">>

ExampleSegments ==
    <<[type |-> "text", content |-> <<"intro">>, alt |-> NoAlt],
      [type |-> "media", content |-> <<"http://x/y.png">>, alt |-> <<"alt">>],
      [type |-> "text", content |-> <<"outro">>, alt |-> NoAlt]>>

\* C18: the segments shown are, in the body's order, one media segment with
\* the url and alt of each reference and one text segment for each text run
\* before, between or after references that is not blank; the body
\* "intro ![alt](http://x/y.png) outro" gives text "intro", media
\* "http://x/y.png" with alt "alt", text "outro".
C18_SegmentsInOrder ==
    (bodyRun.pc = "done" /\ ~bodyRun.body.isNull) =>
        /\ ~Blank(bodyRun.body.text) =>
               bodyRun.out.segments = ExpectedFrom(bodyRun.chunks, <<>>)
        /\ bodyRun.body.text = ExampleBody =>
               bodyRun.out.segments = ExampleSegments

C18_Witness ==
    /\ bodyRun.pc = "done"
    /\ bodyRun.body.text = ExampleBody
    /\ bodyRun.out.segments = ExampleSegments

HasReference(chunks) == \E n \in DOMAIN chunks : chunks[n].kind = "media"

\* C19: a body without a media reference gives exactly one text segment, the
\* whole body with its markdown syntax stripped and trimmed; a null or empty
\* body gives the placeholder and no segment.
C19_OneSegmentOrPlaceholder ==
    bodyRun.pc = "done" =>
        IF bodyRun.body.isNull \/ bodyRun.body.text = <<>>
        THEN bodyRun.out.placeholder /\ bodyRun.out.segments = <<>>
        ELSE ~HasReference(bodyRun.chunks) =>
                 /\ ~bodyRun.out.placeholder
                 /\ bodyRun.out.segments =
                        <<[type |-> "text",
                           content |-> CleanText(bodyRun.body.text),
                           alt |-> NoAlt]>>

\* A blank body that is not empty: one segment, of no text.
C19_Witness ==
    /\ bodyRun.pc = "done"
    /\ bodyRun.body.text = <<" ", " ">>
    /\ Len(bodyRun.out.segments) = 1
    /\ bodyRun.out.segments[1].content = <<>>

\* C28: promptAsync is only ever pending on an AuthRequest whose
\* makeAuthUrlAsync has completed.
C28_PromptOnlyWhenReady ==
    \A i \in Flows : flows[i].pc = "prompt" => flows[i].req \in ready

\* C30: getRepositoriesWithCache has failed with the expired-token error
\* exactly when its validation probe ended without a success status (a
\* network exception included); once the listing request was sent the probe
\* had succeeded, and the call ends with the repositories, the repository
\* fetch error or the network exception of that request, never with the
\* expired-token error.
C30_ExpiredIffProbeFailed ==
    /\ repos.outcome = "ExpiredConnection"
           <=> (repos.checked /\ ~StatusOk(repos.probe))
    /\ (repos.pc = "done" /\ repos.sent > 0) =>
           /\ StatusOk(repos.probe)
           /\ repos.outcome \in {"ok", "RepoFetchError", "NetworkError"}

\* The token passed validation, was revoked, and the listing was rejected.
C30_Witness ==
    /\ repos.pc = "done"
    /\ repos.probe.status = 200
    /\ repos.conn.access_token \notin valid
    /\ repos.outcome = "RepoFetchError"

\* The three conditions an issue meets to be listed under criteria c.
Listed(i, c) ==
    /\ c.filter = "all" \/ c.filter = i.state
    /\ c.selectedLabels = {} \/ \E l \in i.labels : l \in c.selectedLabels
    /\ \/ \A n \in DOMAIN c.searchQuery : c.searchQuery[n] \in {" ", "\n"}
       \/ \E text \in ({i.title, i.login} \cup i.labels
                          \cup (IF i.body = NoText THEN {} ELSE {i.body})) :
              Includes(ToLowerCase(text), ToLowerCase(c.searchQuery))

\* The places of the issues that meet the conditions, among the first n.
ListedUpTo(list, c, n) == {k \in 1..n : Listed(list[k], c)}

FilterExact ==
    filterRun.pc = "done" =>
        LET list == filterRun.issues
            c == filterRun.criteria
            out == filterRun.filtered
        IN /\ Len(out) = Cardinality(ListedUpTo(list, c, Len(list)))
           /\ \A k \in 1..Len(list) :
                  Listed(list[k], c) =>
                      out[Cardinality(ListedUpTo(list, c, k))] = list[k]

\* C25: filteredIssues is exactly the issues that meet the state, label and
\* query conditions, in the order of the input, and computing it leaves the
\* input as it was.
C25_FilterExactInputKept ==
    []FilterExact /\ [][filterRun'.issues = filterRun.issues]_vars

\* A query with an upper-case letter kept one of two open issues and the
\* other went for its labels.
C25_Witness ==
    /\ filterRun.pc = "done"
    /\ filterRun.criteria.searchQuery = <<"A", "B">>
    /\ filterRun.criteria.selectedLabels = {<<"B">>}
    /\ Len(filterRun.issues) = 2
    /\ filterRun.issues[1].state = filterRun.issues[2].state
    /\ filterRun.filtered = <<filterRun.issues[2]>>

\* C21: nothing written to the console holds an access token: the error the
\* token exchange logs carries no response body with an access_token in it.
C21_TokenNeverLogged == ~Truthy(ExchangeLogged(xchg).access_token)

\* C22: a saveConnection write of connectToGitHub and a removeConnection
\* write of disconnectFromGitHub are never pending at the same time.
C22_SaveAndRemoveNeverTogether ==
    ~(connectRun.pc = "saveConnection" /\ disconnectRun.pc = "removeConnection")

IsPrefix(s, t) == Len(s) <= Len(t) /\ \A k \in 1..Len(s) : s[k] = t[k]

\* C24: connectToGitHub issues startOAuthFlow, exchangeCodeForToken, getUser
\* and saveConnection in this order, each one only after all the earlier
\* ones succeeded (the flow with type success and a code); a run that
\* ended any other way than connected wrote nothing to the store, and a
\* cancelled run showed no error.
C24_ConnectInOrder ==
    /\ IsPrefix(connectRun.steps, ConnectSteps)
    /\ Len(connectRun.steps) >= 2 =>
            connectRun.flow.type = "success" /\ Truthy(connectRun.flow.code)
    /\ \A k \in 2..Len(connectRun.steps) : connectRun.results[k - 1] = "ok"
    /\ connectRun.wrote =>
            connectRun.steps = ConnectSteps /\ connectRun.outcome = "connected"
    /\ (connectRun.pc = "done" /\ connectRun.outcome # "connected") =>
            /\ ~connectRun.wrote
            /\ disconnectRun.pc = "idle" => connections = connectRun.stored
    /\ connectRun.flow.type = "cancel" =>
            /\ connectRun.pc = "done"
            /\ connectRun.outcome = "cancelled"
            /\ ~connectRun.alerted
    /\ (connectRun.pc = "done" /\ connectRun.outcome = "failed") => connectRun.alerted

\* A run over a stored connection that got success without a code.
C24_Witness ==
    /\ connectRun.pc = "done"
    /\ connectRun.flow.type = "success"
    /\ ~Truthy(connectRun.flow.code)
    /\ connectRun.steps = <<"startOAuthFlow">>
    /\ connectRun.stored # {}
    /\ connections = connectRun.stored

\* C29: a disconnect attempt that ended cleared connection, repositories
\* and selected repository exactly when removeConnection succeeded and left
\* the connection as it was when it failed; the loading flag is true
\* exactly while the attempt is pending.
C29_ClearedOnlyAfterRemove ==
    /\ integ.loading <=> disconnectRun.pc = "removeConnection"
    /\ disconnectRun.pc = "done" =>
        IF disconnectRun.dberr = "none"
        THEN /\ disconnectRun.after.connection = NullRow
             /\ ~disconnectRun.after.repositories
             /\ ~disconnectRun.after.selectedRepo
             /\ ~disconnectRun.after.loading
        ELSE disconnectRun.after = [disconnectRun.before EXCEPT !.loading = FALSE]
    /\ disconnectRun.pc = "removeConnection" => integ.connection # NullRow

C29_Witness ==
    /\ disconnectRun.pc = "done"
    /\ disconnectRun.dberr # "none"
    /\ disconnectRun.before.selectedRepo
    /\ integ.connection # NullRow
    /\ integ.selectedRepo
    /\ ~integ.loading
RepoLoads == {l \in loads : l.kind = "loadRepositories"}

\* C27: loadingRepos is true whenever a repository load the screen
\* started is still in flight.
C27_LoadingWhilePending ==
    RepoLoads # {} => pscreen.loadingRepos
OthersRows(store, uid) == {p \in store : p.user_id # uid}

OwnRows(store, uid) == store \ OthersRows(store, uid)

\* C23: a ProjectService call made as one user returns only rows of that
\* user, leaves every row of the other users as it was and adds no row of
\* another user, and what it returns and does to the user's own rows is
\* what it would be with the other users' rows absent.
C23_ProjectsIsolated ==
    svcCall.op # "none" =>
        LET own == OwnRows(svcCall.before, svcCall.uid)
            alone == ServiceCall(own, svcCall.uid, svcCall.op, svcCall.args,
                                 svcCall.newId)
        IN /\ \A p \in svcCall.data : p.user_id = svcCall.uid
           /\ OthersRows(svcCall.after, svcCall.uid)
                  = OthersRows(svcCall.before, svcCall.uid)
           /\ svcCall.data = alone.data
           /\ OwnRows(svcCall.after, svcCall.uid) = alone.store

\* User 1, with a row of their own, has called deleteProject, updateProject
\* or getProject with the id of a row of user 2.
C23_Witness ==
    /\ svcCall.uid = 1
    /\ svcCall.op \in {"deleteProject", "updateProject", "getProject"}
    /\ \E p \in svcCall.before : p.id = svcCall.args.id /\ p.user_id = 2
    /\ \E p \in svcCall.before : p.user_id = 1
====
